---- MODULE Spec2Model ----
(***************************************************************************)
(* Model of the nowmcp incident tools: input validation (zod schemas),     *)
(* vocabulary normalisation, identifier resolution, the encoded-query      *)
(* builder of the ServiceNow client and the five incident operations.      *)
(*                                                                         *)
(* Text is modelled as a sequence of one-character strings, so that        *)
(* formatting (template literals, join) is computed and can be inspected   *)
(* character by character.                                                 *)
(***************************************************************************)
EXTENDS Integers, Sequences, FiniteSets, TLC

VARIABLES pc, tool, args, client, locals, calls, replies, outcome, response,
          env, config, selected, parked, incidents

\* The state of the server's start: process.env, this.config and the
\* last answer of getClient.
startupVars == <<env, config, selected>>

\* The state of one tool invocation.
invocationVars ==
  <<pc, tool, args, client, locals, calls, replies, outcome, response>>

\* A second invocation, in flight while the first one runs, and the
\* incidents the instance holds when invocations share it.
concurrentVars == <<parked, incidents>>

vars == <<invocationVars, startupVars, concurrentVars>>

(***************************************************************************)
(* Bounds of the model.                                                    *)
(***************************************************************************)
\* Largest number of records the store returns in one response.
MaxResults == 2

(***************************************************************************)
(* JavaScript values.                                                      *)
(***************************************************************************)
Undefined == [t |-> "undefined"]

Null == [t |-> "null"]

Str(s) == [t |-> "string", s |-> s]

\* The number n + d/10 (d is a single decimal digit; d = 0 for an integer).
NumD(n, d) == [t |-> "number", n |-> n, d |-> d]

Num(n) == NumD(n, 0)

Bool(b) == [t |-> "boolean", b |-> b]

Arr(items) == [t |-> "array", items |-> items]

\* An object is the sequence of its own enumerable entries, in insertion order.
Obj(entries) == [t |-> "object", entries |-> entries]

Entry(k, v) == [k |-> k, v |-> v]

HasKey(o, k) == \E i \in 1..Len(o.entries) : o.entries[i].k = k

Get(o, k) ==
  IF HasKey(o, k)
    THEN o.entries[CHOOSE i \in 1..Len(o.entries) : o.entries[i].k = k].v
    ELSE Undefined

\* JavaScript truthiness.
Truthy(v) ==
  CASE v.t = "undefined" -> FALSE
    [] v.t = "null" -> FALSE
    [] v.t = "string" -> Len(v.s) > 0
    [] v.t = "number" -> v.n # 0 \/ v.d # 0
    [] v.t = "boolean" -> v.b
    [] OTHER -> TRUE

Digits == <<"0", "1", "2", "3", "4", "5", "6", "7", "8", "9">>

RECURSIVE NatToStr(_)
NatToStr(n) ==
  IF n < 10 THEN <<Digits[n + 1]>>
            ELSE NatToStr(n \div 10) \o <<Digits[(n % 10) + 1]>>

\* String(v) as a template literal or Array.prototype.join renders a scalar.
StringOf(v) ==
  CASE v.t = "string" -> v.s
    [] v.t = "number" ->
         (IF v.n < 0 THEN <<"-">> \o NatToStr(0 - v.n) ELSE NatToStr(v.n))
           \o (IF v.d = 0 THEN <<>> ELSE <<".", Digits[v.d + 1]>>)
    [] v.t = "boolean" -> IF v.b THEN <<"t", "r", "u", "e">> ELSE <<"f", "a", "l", "s", "e">>
    [] v.t = "undefined" -> <<"u", "n", "d", "e", "f", "i", "n", "e", "d">>
    [] v.t = "null" -> <<"n", "u", "l", "l">>
    [] OTHER -> <<"[", "o", "b", "j", "e", "c", "t", " ", "O", "b", "j", "e", "c", "t", "]">>

RECURSIVE Join(_, _)
\* Array.prototype.join over a sequence of texts.
Join(parts, sep) ==
  IF Len(parts) = 0 THEN <<>>
  ELSE IF Len(parts) = 1 THEN parts[1]
  ELSE parts[1] \o sep \o Join(Tail(parts), sep)

RECURSIVE Count(_, _)
\* Number of occurrences of the character c in the text s.
Count(s, c) ==
  IF Len(s) = 0 THEN 0
  ELSE (IF Head(s) = c THEN 1 ELSE 0) + Count(Tail(s), c)

DQUOTE == "\""

NEWLINE == "\n"

(***************************************************************************)
(* zod: a parse result is the issues found plus the output value.          *)
(***************************************************************************)
Issue(path, message) == [path |-> path, message |-> message]

Ok(v) == [issues |-> <<>>, out |-> v]

Fail(path, message) == [issues |-> <<Issue(path, message)>>, out |-> Undefined]

\* z.string()
ZString(v, path) ==
  IF v.t = "string" THEN Ok(v)
  ELSE IF v.t = "undefined" THEN Fail(path, <<"R", "e", "q", "u", "i", "r", "e", "d">>)
  ELSE Fail(path, <<"E", "x", "p", "e", "c", "t", "e", "d", " ", "s", "t", "r", "i", "n", "g">>)

\* z.string().min(1, message)
ZStringMin1(v, path, message) ==
  IF v.t # "string" THEN ZString(v, path)
  ELSE IF Len(v.s) < 1 THEN Fail(path, message)
  ELSE Ok(v)

\* schema.optional()
ZOptional(v, inner) == IF v.t = "undefined" THEN Ok(Undefined) ELSE inner

\* z.enum(options)
ZEnum(v, path, options) ==
  IF v.t = "undefined" THEN Fail(path, <<"R", "e", "q", "u", "i", "r", "e", "d">>)
  ELSE IF v.t # "string" THEN Fail(path, <<"E", "x", "p", "e", "c", "t", "e", "d", " ", "e", "n", "u", "m", " ", "s", "t", "r", "i", "n", "g">>)
  ELSE IF \E i \in 1..Len(options) : options[i] = v.s THEN Ok(v)
  ELSE Fail(path, <<"I", "n", "v", "a", "l", "i", "d", " ", "e", "n", "u", "m", " ", "v", "a", "l", "u", "e">>)

\* Record<string, string> lookup: map[key], undefined when the key is absent.
MapGet(map, key) ==
  IF \E i \in 1..Len(map) : map[i].k = key
    THEN Str(map[CHOOSE i \in 1..Len(map) : map[i].k = key].v)
    ELSE Undefined

StartsWith(s, p) == Len(s) >= Len(p) /\ SubSeq(s, 1, Len(p)) = p

Range(s) == {s[i] : i \in 1..Len(s)}

RECURSIVE FlattenIssues(_)
\* The issues of a sequence of parse results, in the order they were found.
FlattenIssues(results) ==
  IF Len(results) = 0 THEN <<>>
  ELSE Head(results).issues \o FlattenIssues(Tail(results))

(***************************************************************************)
(* Vocabulary: the label-or-code enums of the incident schemas.            *)
(***************************************************************************)
stateMap ==
  << Entry(<<"N", "e", "w">>, <<"1">>), Entry(<<"I", "n", " ", "P", "r", "o", "g", "r", "e", "s", "s">>, <<"2">>),
     Entry(<<"O", "n", " ", "H", "o", "l", "d">>, <<"3">>), Entry(<<"R", "e", "s", "o", "l", "v", "e", "d">>, <<"6">>),
     Entry(<<"C", "l", "o", "s", "e", "d">>, <<"7">>), Entry(<<"C", "a", "n", "c", "e", "l", "e", "d">>, <<"8">>) >>

priorityMap ==
  << Entry(<<"C", "r", "i", "t", "i", "c", "a", "l">>, <<"1">>), Entry(<<"H", "i", "g", "h">>, <<"2">>),
     Entry(<<"M", "o", "d", "e", "r", "a", "t", "e">>, <<"3">>), Entry(<<"L", "o", "w">>, <<"4">>),
     Entry(<<"P", "l", "a", "n", "n", "i", "n", "g">>, <<"5">>) >>

urgencyMap ==
  << Entry(<<"H", "i", "g", "h">>, <<"1">>), Entry(<<"M", "e", "d", "i", "u", "m">>, <<"2">>), Entry(<<"L", "o", "w">>, <<"3">>) >>

stateValues ==
  << <<"1">>, <<"2">>, <<"3">>, <<"6">>, <<"7">>, <<"8">>,
     <<"N", "e", "w">>, <<"I", "n", " ", "P", "r", "o", "g", "r", "e", "s", "s">>, <<"O", "n", " ", "H", "o", "l", "d">>, <<"R", "e", "s", "o", "l", "v", "e", "d">>, <<"C", "l", "o", "s", "e", "d">>,
     <<"C", "a", "n", "c", "e", "l", "e", "d">> >>

priorityValues ==
  << <<"1">>, <<"2">>, <<"3">>, <<"4">>, <<"5">>,
     <<"C", "r", "i", "t", "i", "c", "a", "l">>, <<"H", "i", "g", "h">>, <<"M", "o", "d", "e", "r", "a", "t", "e">>, <<"L", "o", "w">>, <<"P", "l", "a", "n", "n", "i", "n", "g">> >>

urgencyValues == << <<"1">>, <<"2">>, <<"3">>, <<"H", "i", "g", "h">>, <<"M", "e", "d", "i", "u", "m">>, <<"L", "o", "w">> >>

\* A transform that leaves every value as it is.
TransformMapMutant(map, val) == val

\* .transform(val => map[val] || val)

TransformMap(map, val) ==
  IF Truthy(MapGet(map, val.s)) THEN MapGet(map, val.s) ELSE val

\* z.enum(values).transform(...): the transform runs only on a valid value.
EnumTransform(v, path, values, map) ==
  LET r == ZEnum(v, path, values)
  IN  IF r.issues = <<>> THEN Ok(TransformMap(map, r.out)) ELSE r

IncidentStateEnum(v, path) == EnumTransform(v, path, stateValues, stateMap)

IncidentPriorityEnum(v, path) ==
  EnumTransform(v, path, priorityValues, priorityMap)

IncidentUrgencyEnum(v, path) ==
  EnumTransform(v, path, urgencyValues, urgencyMap)

(***************************************************************************)
(* Query filter schemas.                                                   *)
(***************************************************************************)
QueryOperators ==
  << <<"=">>, <<"!", "=">>, <<">">>, <<">", "=">>, <<"<">>, <<"<", "=">>,
     <<"L", "I", "K", "E">>, <<"S", "T", "A", "R", "T", "S", "W", "I", "T", "H">>, <<"E", "N", "D", "S", "W", "I", "T", "H">>, <<"C", "O", "N", "T", "A", "I", "N", "S">>,
     <<"I", "N">>, <<"N", "O", "T", " ", "I", "N">>, <<"I", "S", "E", "M", "P", "T", "Y">>, <<"I", "S", "N", "O", "T", "E", "M", "P", "T", "Y">> >>

IsScalar(v) == v.t \in {"string", "number", "boolean"}

\* z.object({ operator: z.enum([...]), value: z.union([string, number, boolean]) })
QueryOperatorSchema(v, path) ==
  IF v.t # "object" THEN Fail(path, <<"E", "x", "p", "e", "c", "t", "e", "d", " ", "o", "b", "j", "e", "c", "t">>)
  ELSE LET op == ZEnum(Get(v, <<"o", "p", "e", "r", "a", "t", "o", "r">>), path \o << <<"o", "p", "e", "r", "a", "t", "o", "r">> >>,
                       QueryOperators)
           val == IF IsScalar(Get(v, <<"v", "a", "l", "u", "e">>))
                    THEN Ok(Get(v, <<"v", "a", "l", "u", "e">>))
                    ELSE Fail(path \o << <<"v", "a", "l", "u", "e">> >>, <<"I", "n", "v", "a", "l", "i", "d", " ", "i", "n", "p", "u", "t">>)
       IN  IF op.issues \o val.issues = <<>>
             THEN Ok(Obj(<< Entry(<<"o", "p", "e", "r", "a", "t", "o", "r">>, op.out),
                            Entry(<<"v", "a", "l", "u", "e">>, val.out) >>))
             ELSE [issues |-> op.issues \o val.issues, out |-> Undefined]

\* z.union([z.string(), z.number(), z.boolean(), QueryOperatorSchema]): one
\* issue for the whole union when no member accepts the value.
QueryValueSchema(v, path) ==
  IF IsScalar(v) THEN Ok(v)
  ELSE IF QueryOperatorSchema(v, path).issues = <<>>
    THEN QueryOperatorSchema(v, path)
  ELSE Fail(path, <<"I", "n", "v", "a", "l", "i", "d", " ", "i", "n", "p", "u", "t">>)

\* z.record(z.string(), QueryValueSchema).optional()
QueryFilterSchema(v, path) ==
  IF v.t = "undefined" THEN Ok(Undefined)
  ELSE IF v.t # "object" THEN Fail(path, <<"E", "x", "p", "e", "c", "t", "e", "d", " ", "o", "b", "j", "e", "c", "t">>)
  ELSE LET rs == [i \in 1..Len(v.entries) |->
                    QueryValueSchema(v.entries[i].v, path \o <<v.entries[i].k>>)]
       IN  IF FlattenIssues(rs) = <<>>
             THEN Ok(Obj([i \in 1..Len(v.entries) |->
                            Entry(v.entries[i].k, rs[i].out)]))
             ELSE [issues |-> FlattenIssues(rs), out |-> Undefined]

InstanceNames == << <<"p", "r", "i", "m", "a", "r", "y">>, <<"d", "e", "v">>, <<"t", "e", "s", "t">>, <<"p", "r", "o", "d">> >>

\* z.enum(['primary', 'dev', 'test', 'prod']).optional()
InstanceNameSchema(v, path) == ZOptional(v, ZEnum(v, path, InstanceNames))

\* Bounds and default of the limit of incident_query.
LimitMin == 1

LimitMax == 1000

LimitDefault == 100

\* A limit schema without the int, min and max checks.
LimitSchemaMutant(v, path) ==
  IF v.t = "undefined" THEN Ok(Num(LimitDefault))
  ELSE IF v.t # "number" THEN Fail(path, <<"E", "x", "p", "e", "c", "t", "e", "d", " ", "n", "u", "m", "b", "e", "r">>)
  ELSE Ok(v)

\* z.number().int().min(1).max(1000).default(100): every failing check of the
\* number adds its own issue.
LimitSchema(v, path) ==
  IF v.t = "undefined" THEN Ok(Num(LimitDefault))
  ELSE IF v.t # "number" THEN Fail(path, <<"E", "x", "p", "e", "c", "t", "e", "d", " ", "n", "u", "m", "b", "e", "r">>)
  ELSE LET isInt == v.d = 0
           tooSmall == v.n < LimitMin
           tooBig == v.n > LimitMax \/ (v.n = LimitMax /\ v.d > 0)
           issues ==
             (IF isInt THEN <<>> ELSE <<Issue(path, <<"E", "x", "p", "e", "c", "t", "e", "d", " ", "i", "n", "t", "e", "g", "e", "r", ",", " ", "r", "e", "c", "e", "i", "v", "e", "d", " ", "f", "l", "o", "a", "t">>)>>)
             \o (IF tooSmall
                   THEN <<Issue(path, <<"N", "u", "m", "b", "e", "r", " ", "m", "u", "s", "t", " ", "b", "e", " ", "g", "r", "e", "a", "t", "e", "r", " ", "t", "h", "a", "n", " ", "o", "r", " ", "e", "q", "u", "a", "l", " ", "t", "o", " ", "1">>)>>
                   ELSE <<>>)
             \o (IF tooBig
                   THEN <<Issue(path, <<"N", "u", "m", "b", "e", "r", " ", "m", "u", "s", "t", " ", "b", "e", " ", "l", "e", "s", "s", " ", "t", "h", "a", "n", " ", "o", "r", " ", "e", "q", "u", "a", "l", " ", "t", "o", " ", "1", "0", "0", "0">>)>>
                   ELSE <<>>)
       IN  IF issues = <<>> THEN Ok(v) ELSE [issues |-> issues, out |-> Undefined]

\* z.array(z.string()).optional()
FieldsSchema(v, path) ==
  IF v.t = "undefined" THEN Ok(Undefined)
  ELSE IF v.t # "array" THEN Fail(path, <<"E", "x", "p", "e", "c", "t", "e", "d", " ", "a", "r", "r", "a", "y">>)
  ELSE LET rs == [i \in 1..Len(v.items) |->
                    ZString(v.items[i], path \o <<NatToStr(i - 1)>>)]
       IN  IF FlattenIssues(rs) = <<>> THEN Ok(v)
           ELSE [issues |-> FlattenIssues(rs), out |-> Undefined]

\* A confirm schema without the refinement.
ConfirmSchemaMutant(v, path) ==
  IF v.t = "undefined" THEN Fail(path, <<"R", "e", "q", "u", "i", "r", "e", "d">>)
  ELSE IF v.t # "boolean" THEN Fail(path, <<"E", "x", "p", "e", "c", "t", "e", "d", " ", "b", "o", "o", "l", "e", "a", "n">>)
  ELSE Ok(v)

\* z.boolean().refine(val => val === true, { message })
ConfirmSchema(v, path) ==
  IF v.t = "undefined" THEN Fail(path, <<"R", "e", "q", "u", "i", "r", "e", "d">>)
  ELSE IF v.t # "boolean" THEN Fail(path, <<"E", "x", "p", "e", "c", "t", "e", "d", " ", "b", "o", "o", "l", "e", "a", "n">>)
  ELSE IF v.b # TRUE
    THEN Fail(path,
              <<"D", "e", "l", "e", "t", "i", "o", "n", " ", "r", "e", "q", "u", "i", "r", "e", "s", " ", "e", "x", "p", "l", "i", "c", "i", "t", " ", "c", "o", "n", "f", "i", "r", "m", "a", "t", "i", "o", "n", ".", " ", "S", "e", "t", " ", "c", "o", "n", "f", "i", "r", "m", " ", "t", "o", " ", "t", "r", "u", "e", ".">>)
  ELSE Ok(v)

(***************************************************************************)
(* Object schemas of the five incident tools.                              *)
(***************************************************************************)
Field(key, kind) == [key |-> key, kind |-> kind]

\* The schema of one property, by the kind the shape gives it.
FieldParse(kind, v, path) ==
  CASE kind = "identifier" ->
         ZStringMin1(v, path, <<"I", "d", "e", "n", "t", "i", "f", "i", "e", "r", " ", "c", "a", "n", "n", "o", "t", " ", "b", "e", " ", "e", "m", "p", "t", "y">>)
    [] kind = "short_description" ->
         ZStringMin1(v, path,
                     <<"S", "h", "o", "r", "t", " ", "d", "e", "s", "c", "r", "i", "p", "t", "i", "o", "n", " ", "i", "s", " ", "r", "e", "q", "u", "i", "r", "e", "d", " ", "a", "n", "d", " ", "c", "a", "n", "n", "o", "t", " ", "b", "e", " ", "e", "m", "p", "t", "y">>)
    [] kind = "string" -> ZOptional(v, ZString(v, path))
    [] kind = "state" -> ZOptional(v, IncidentStateEnum(v, path))
    [] kind = "priority" -> ZOptional(v, IncidentPriorityEnum(v, path))
    [] kind = "urgency" -> ZOptional(v, IncidentUrgencyEnum(v, path))
    [] kind = "filter" -> QueryFilterSchema(v, path)
    [] kind = "limit" -> LimitSchema(v, path)
    [] kind = "fields" -> FieldsSchema(v, path)
    [] kind = "confirm" -> ConfirmSchema(v, path)
    [] kind = "instance" -> InstanceNameSchema(v, path)

ShapeHasKey(shape, k) == \E i \in 1..Len(shape) : shape[i].key = k

\* z.object(shape) and z.object(shape).passthrough(): every property of the
\* shape is parsed and every issue kept; the output holds the shape's keys
\* that are set, then (passthrough only) the unknown keys of the input.
ZObject(v, shape, passthrough) ==
  IF v.t = "undefined" THEN Fail(<<>>, <<"R", "e", "q", "u", "i", "r", "e", "d">>)
  ELSE IF v.t # "object" THEN Fail(<<>>, <<"E", "x", "p", "e", "c", "t", "e", "d", " ", "o", "b", "j", "e", "c", "t">>)
  ELSE LET rs == [i \in 1..Len(shape) |->
                    FieldParse(shape[i].kind, Get(v, shape[i].key),
                               <<shape[i].key>>)]
           known == [i \in 1..Len(shape) |-> Entry(shape[i].key, rs[i].out)]
           isSet(e) == e.v.t # "undefined" \/ HasKey(v, e.k)
           isExtra(e) == ~ShapeHasKey(shape, e.k)
       IN  IF FlattenIssues(rs) = <<>>
             THEN Ok(Obj(SelectSeq(known, isSet)
                         \o (IF passthrough THEN SelectSeq(v.entries, isExtra)
                                            ELSE <<>>)))
             ELSE [issues |-> FlattenIssues(rs), out |-> Undefined]

IncidentQueryShape ==
  << Field(<<"f", "i", "l", "t", "e", "r">>, "filter"), Field(<<"l", "i", "m", "i", "t">>, "limit"),
     Field(<<"f", "i", "e", "l", "d", "s">>, "fields"), Field(<<"i", "n", "s", "t", "a", "n", "c", "e">>, "instance") >>

IncidentGetShape ==
  << Field(<<"i", "d", "e", "n", "t", "i", "f", "i", "e", "r">>, "identifier"), Field(<<"f", "i", "e", "l", "d", "s">>, "fields"),
     Field(<<"i", "n", "s", "t", "a", "n", "c", "e">>, "instance") >>

IncidentCreateShape ==
  << Field(<<"s", "h", "o", "r", "t", "_", "d", "e", "s", "c", "r", "i", "p", "t", "i", "o", "n">>, "short_description"),
     Field(<<"d", "e", "s", "c", "r", "i", "p", "t", "i", "o", "n">>, "string"),
     Field(<<"p", "r", "i", "o", "r", "i", "t", "y">>, "priority"),
     Field(<<"u", "r", "g", "e", "n", "c", "y">>, "urgency"),
     Field(<<"i", "m", "p", "a", "c", "t">>, "urgency"),
     Field(<<"c", "a", "t", "e", "g", "o", "r", "y">>, "string"),
     Field(<<"s", "u", "b", "c", "a", "t", "e", "g", "o", "r", "y">>, "string"),
     Field(<<"a", "s", "s", "i", "g", "n", "m", "e", "n", "t", "_", "g", "r", "o", "u", "p">>, "string"),
     Field(<<"a", "s", "s", "i", "g", "n", "e", "d", "_", "t", "o">>, "string"),
     Field(<<"c", "a", "l", "l", "e", "r", "_", "i", "d">>, "string"),
     Field(<<"i", "n", "s", "t", "a", "n", "c", "e">>, "instance") >>

IncidentUpdateShape ==
  << Field(<<"i", "d", "e", "n", "t", "i", "f", "i", "e", "r">>, "identifier"),
     Field(<<"s", "t", "a", "t", "e">>, "state"),
     Field(<<"p", "r", "i", "o", "r", "i", "t", "y">>, "priority"),
     Field(<<"u", "r", "g", "e", "n", "c", "y">>, "urgency"),
     Field(<<"i", "m", "p", "a", "c", "t">>, "urgency"),
     Field(<<"s", "h", "o", "r", "t", "_", "d", "e", "s", "c", "r", "i", "p", "t", "i", "o", "n">>, "string"),
     Field(<<"d", "e", "s", "c", "r", "i", "p", "t", "i", "o", "n">>, "string"),
     Field(<<"w", "o", "r", "k", "_", "n", "o", "t", "e", "s">>, "string"),
     Field(<<"c", "o", "m", "m", "e", "n", "t", "s">>, "string"),
     Field(<<"a", "s", "s", "i", "g", "n", "m", "e", "n", "t", "_", "g", "r", "o", "u", "p">>, "string"),
     Field(<<"a", "s", "s", "i", "g", "n", "e", "d", "_", "t", "o">>, "string"),
     Field(<<"c", "l", "o", "s", "e", "_", "c", "o", "d", "e">>, "string"),
     Field(<<"c", "l", "o", "s", "e", "_", "n", "o", "t", "e", "s">>, "string"),
     Field(<<"c", "a", "t", "e", "g", "o", "r", "y">>, "string"),
     Field(<<"s", "u", "b", "c", "a", "t", "e", "g", "o", "r", "y">>, "string"),
     Field(<<"i", "n", "s", "t", "a", "n", "c", "e">>, "instance") >>

IncidentDeleteShape ==
  << Field(<<"i", "d", "e", "n", "t", "i", "f", "i", "e", "r">>, "identifier"), Field(<<"c", "o", "n", "f", "i", "r", "m">>, "confirm"),
     Field(<<"i", "n", "s", "t", "a", "n", "c", "e">>, "instance") >>

IncidentQuerySchema(v) == ZObject(v, IncidentQueryShape, FALSE)

IncidentGetSchema(v) == ZObject(v, IncidentGetShape, FALSE)

IncidentCreateSchema(v) == ZObject(v, IncidentCreateShape, TRUE)

IncidentUpdateSchema(v) == ZObject(v, IncidentUpdateShape, TRUE)

IncidentDeleteSchema(v) == ZObject(v, IncidentDeleteShape, FALSE)

(***************************************************************************)
(* Validation errors.                                                      *)
(***************************************************************************)
\* error.issues.map(err => `  - ${path ? path + ': ' : ''}${err.message}`)
IssueLine(issue) ==
  LET path == Join(issue.path, <<".">>)
  IN  <<" ", " ", "-", " ">> \o (IF Len(path) > 0 THEN path \o <<":", " ">> ELSE <<>>)
               \o issue.message

\* A formatter that reports the first issue only.
formatValidationErrorMutant(issues) ==
  <<"V", "a", "l", "i", "d", "a", "t", "i", "o", "n", " ", "E", "r", "r", "o", "r", ":">> \o <<NEWLINE>> \o IssueLine(issues[1])

formatValidationError(issues) ==
  <<"V", "a", "l", "i", "d", "a", "t", "i", "o", "n", " ", "E", "r", "r", "o", "r", ":">> \o <<NEWLINE>>
    \o Join([i \in 1..Len(issues) |-> IssueLine(issues[i])], <<NEWLINE>>)

(***************************************************************************)
(* Identifier kind.                                                        *)
(***************************************************************************)
SysIdLen == 32

HexLower ==
  {"0", "1", "2", "3", "4", "5", "6", "7", "8", "9", "a", "b", "c", "d", "e", "f"}

HexUpper == {"A", "B", "C", "D", "E", "F"}

\* The test without the i flag.
IsSysIdMutant(identifier) ==
  /\ Len(identifier) = SysIdLen
  /\ \A i \in 1..Len(identifier) : identifier[i] \in HexLower

\* /^[a-f0-9]{32}$/i.test(identifier)
IsSysId(identifier) ==
  /\ Len(identifier) = SysIdLen
  /\ \A i \in 1..Len(identifier) : identifier[i] \in HexLower \cup HexUpper

(***************************************************************************)
(* ServiceNowClient.                                                       *)
(***************************************************************************)
INCIDENT_TABLE == <<"i", "n", "c", "i", "d", "e", "n", "t">>

instanceUrl == <<"h", "t", "t", "p", "s", ":", "/", "/", "d", "e", "v", ".", "s", "e", "r", "v", "i", "c", "e", "-", "n", "o", "w", ".", "c", "o", "m">>

\* typeof value === 'object' && 'operator' in value
IsOperatorValue(value) == value.t = "object" /\ HasKey(value, <<"o", "p", "e", "r", "a", "t", "o", "r">>)

\* One part of the encoded query: `${field}${operator}${val}` or
\* `${field}=${value}`.
QueryPart(e) ==
  IF IsOperatorValue(e.v)
    THEN e.k \o StringOf(Get(e.v, <<"o", "p", "e", "r", "a", "t", "o", "r">>)) \o StringOf(Get(e.v, <<"v", "a", "l", "u", "e">>))
    ELSE e.k \o <<"=">> \o StringOf(e.v)

buildEncodedQuery(filter) ==
  Join([i \in 1..Len(filter.entries) |-> QueryPart(filter.entries[i])], <<"^">>)

Unset == [set |-> FALSE, v |-> Undefined]

SetTo(v) == [set |-> TRUE, v |-> v]

NoParams ==
  [sysparm_query |-> Unset, sysparm_limit |-> Unset, sysparm_fields |-> Unset]

NoOptions == [limit |-> Undefined, fields |-> Undefined]

\* options.fields.join(',')
JoinFields(fields) ==
  Join([i \in 1..Len(fields.items) |-> StringOf(fields.items[i])], <<",">>)

\* The request of queryTable(tableName, filter, options): params as built
\* before axios.get. The tools never pass offset, displayValue or
\* excludeReferenceLink.
queryTable(tableName, filter, options) ==
  [ op |-> "queryTable", method |-> "GET",
    url |-> <<"/", "t", "a", "b", "l", "e", "/">> \o tableName,
    client |-> Undefined, table |-> tableName, sysId |-> Undefined, filter |-> filter,
    options |-> options, data |-> Undefined,
    params |->
      [ sysparm_query |->
          IF Truthy(filter) THEN SetTo(Str(buildEncodedQuery(filter)))
                            ELSE Unset,
        sysparm_limit |->
          IF Truthy(options.limit) THEN SetTo(options.limit) ELSE Unset,
        sysparm_fields |->
          IF Truthy(options.fields) THEN SetTo(Str(JoinFields(options.fields)))
                                    ELSE Unset ] ]

\* The request of getRecord(tableName, sysId, options).
getRecord(tableName, sysId, options) ==
  [ op |-> "getRecord", method |-> "GET",
    url |-> <<"/", "t", "a", "b", "l", "e", "/">> \o tableName \o <<"/">> \o sysId.s,
    client |-> Undefined, table |-> tableName, sysId |-> sysId, filter |-> Undefined,
    options |-> options, data |-> Undefined,
    params |->
      [ NoParams EXCEPT !.sysparm_fields =
          IF Truthy(options.fields) THEN SetTo(Str(JoinFields(options.fields)))
                                    ELSE Unset ] ]

\* The request of createRecord(tableName, data).
createRecord(tableName, data) ==
  [ op |-> "createRecord", method |-> "POST",
    url |-> <<"/", "t", "a", "b", "l", "e", "/">> \o tableName,
    client |-> Undefined, table |-> tableName, sysId |-> Undefined, filter |-> Undefined,
    options |-> NoOptions, data |-> data, params |-> NoParams ]

\* The request of updateRecord(tableName, sysId, data).
updateRecord(tableName, sysId, data) ==
  [ op |-> "updateRecord", method |-> "PATCH",
    url |-> <<"/", "t", "a", "b", "l", "e", "/">> \o tableName \o <<"/">> \o StringOf(sysId),
    client |-> Undefined, table |-> tableName, sysId |-> sysId, filter |-> Undefined,
    options |-> NoOptions, data |-> data, params |-> NoParams ]

\* The request of deleteRecord(tableName, sysId).
deleteRecord(tableName, sysId) ==
  [ op |-> "deleteRecord", method |-> "DELETE",
    url |-> <<"/", "t", "a", "b", "l", "e", "/">> \o tableName \o <<"/">> \o StringOf(sysId),
    client |-> Undefined, table |-> tableName, sysId |-> sysId, filter |-> Undefined,
    options |-> NoOptions, data |-> Undefined, params |-> NoParams ]

\* The context string each method hands to handleError.
ErrorContext(call) ==
  CASE call.op = "queryTable" -> <<"q", "u", "e", "r", "y", "T", "a", "b", "l", "e", "(">> \o call.table \o <<")">>
    [] call.op = "createRecord" -> <<"c", "r", "e", "a", "t", "e", "R", "e", "c", "o", "r", "d", "(">> \o call.table \o <<")">>
    [] call.op = "getRecord" ->
         <<"g", "e", "t", "R", "e", "c", "o", "r", "d", "(">> \o call.table \o <<",", " ">> \o StringOf(call.sysId) \o <<")">>
    [] call.op = "updateRecord" ->
         <<"u", "p", "d", "a", "t", "e", "R", "e", "c", "o", "r", "d", "(">> \o call.table \o <<",", " ">> \o StringOf(call.sysId) \o <<")">>
    [] call.op = "deleteRecord" ->
         <<"d", "e", "l", "e", "t", "e", "R", "e", "c", "o", "r", "d", "(">> \o call.table \o <<",", " ">> \o StringOf(call.sysId) \o <<")">>

\* An axios failure: with a response (status, optional ServiceNow error
\* payload), with a request that got no answer, or with neither (the request
\* could not be set up).
AxiosError(hasResponse, status, payload, message) ==
  [ kind |-> "axios", response |-> hasResponse, request |-> TRUE,
    status |-> status, data |-> payload, message |-> message ]

\* An axios failure raised before any request was made.
AxiosSetupError(message) ==
  [ kind |-> "axios", response |-> FALSE, request |-> FALSE,
    status |-> 0, data |-> Undefined, message |-> message ]

\* An Error that is no axios error, thrown inside the method's try block.
PlainError(message) ==
  [ kind |-> "error", response |-> FALSE, request |-> FALSE,
    status |-> 0, data |-> Undefined, message |-> message ]

\* A thrown value that is no Error.
ThrownValue(text) ==
  [ kind |-> "value", response |-> FALSE, request |-> FALSE,
    status |-> 0, data |-> Undefined, message |-> text ]

ErrorPayload(message, detail) ==
  Obj(<< Entry(<<"e", "r", "r", "o", "r">>,
               Obj(<< Entry(<<"m", "e", "s", "s", "a", "g", "e">>, Str(message)),
                      Entry(<<"d", "e", "t", "a", "i", "l">>, detail) >>)) >>)

\* An error message that names neither the operation nor the kind of error.
handleErrorMutant(error, context) == <<"S", "e", "r", "v", "i", "c", "e", "N", "o", "w", " ", "E", "r", "r", "o", "r", ":", " ">> \o error.message

\* handleError(error, context).
handleError(error, context) ==
  IF error.kind = "axios" /\ error.response
    THEN IF error.data.t = "object" /\ HasKey(error.data, <<"e", "r", "r", "o", "r">>)
           THEN <<"S", "e", "r", "v", "i", "c", "e", "N", "o", "w", " ", "A", "P", "I", " ", "E", "r", "r", "o", "r", " ", "(">> \o context \o <<")", ":", " ">>
                  \o StringOf(Get(Get(error.data, <<"e", "r", "r", "o", "r">>), <<"m", "e", "s", "s", "a", "g", "e">>))
                  \o (IF Truthy(Get(Get(error.data, <<"e", "r", "r", "o", "r">>), <<"d", "e", "t", "a", "i", "l">>))
                        THEN <<" ", "-", " ">>
                               \o StringOf(Get(Get(error.data, <<"e", "r", "r", "o", "r">>), <<"d", "e", "t", "a", "i", "l">>))
                        ELSE <<>>)
           ELSE <<"S", "e", "r", "v", "i", "c", "e", "N", "o", "w", " ", "A", "P", "I", " ", "E", "r", "r", "o", "r", " ", "(">> \o context \o <<")", ":", " ", "H", "T", "T", "P", " ">>
                  \o NatToStr(error.status) \o <<" ", "-", " ">> \o error.message
  ELSE IF error.kind = "axios" /\ error.request
    THEN <<"S", "e", "r", "v", "i", "c", "e", "N", "o", "w", " ", "C", "o", "n", "n", "e", "c", "t", "i", "o", "n", " ", "E", "r", "r", "o", "r", " ", "(">> \o context
           \o <<")", ":", " ", "N", "o", " ", "r", "e", "s", "p", "o", "n", "s", "e", " ", "r", "e", "c", "e", "i", "v", "e", "d", " ", "f", "r", "o", "m", " ">> \o instanceUrl
  ELSE IF error.kind \in {"axios", "error"}
    THEN <<"S", "e", "r", "v", "i", "c", "e", "N", "o", "w", " ", "C", "l", "i", "e", "n", "t", " ", "E", "r", "r", "o", "r", " ", "(">> \o context \o <<")", ":", " ">> \o error.message
  ELSE <<"S", "e", "r", "v", "i", "c", "e", "N", "o", "w", " ", "U", "n", "k", "n", "o", "w", "n", " ", "E", "r", "r", "o", "r", " ", "(">> \o context \o <<")", ":", " ">> \o error.message

(***************************************************************************)
(* The record store behind the client (the environment).                   *)
(***************************************************************************)
SysIdA == [i \in 1..SysIdLen |-> IF i % 2 = 0 THEN "a" ELSE "0"]

SysIdB == [i \in 1..SysIdLen |-> IF i % 2 = 0 THEN "F" ELSE "9"]

Incident(sysId, number) ==
  Obj(<< Entry(<<"s", "y", "s", "_", "i", "d">>, Str(sysId)), Entry(<<"n", "u", "m", "b", "e", "r">>, Str(number)) >>)

StoreRecords ==
  { Incident(SysIdA, <<"I", "N", "C", "0", "0", "1", "0", "0", "0", "1">>), Incident(SysIdB, <<"I", "N", "C", "0", "0", "1", "0", "0", "0", "2">>) }

RECURSIVE SeqsUpTo(_, _)
\* Every sequence over S of length at most n.
SeqsUpTo(S, n) ==
  IF n = 0 THEN {<<>>}
  ELSE SeqsUpTo(S, n - 1)
         \cup {Append(s, x) : s \in {q \in SeqsUpTo(S, n - 1) : Len(q) = n - 1},
                              x \in S}

StoreErrors ==
  { AxiosError(TRUE, 404,
               ErrorPayload(<<"N", "o", " ", "R", "e", "c", "o", "r", "d", " ", "f", "o", "u", "n", "d">>, Str(<<"R", "e", "c", "o", "r", "d", " ", "d", "o", "e", "s", "n", "'", "t", " ", "e", "x", "i", "s", "t">>)),
               <<"R", "e", "q", "u", "e", "s", "t", " ", "f", "a", "i", "l", "e", "d", " ", "w", "i", "t", "h", " ", "s", "t", "a", "t", "u", "s", " ", "c", "o", "d", "e", " ", "4", "0", "4">>),
    AxiosError(TRUE, 401,
               ErrorPayload(<<"U", "s", "e", "r", " ", "N", "o", "t", " ", "A", "u", "t", "h", "e", "n", "t", "i", "c", "a", "t", "e", "d">>, Undefined),
               <<"R", "e", "q", "u", "e", "s", "t", " ", "f", "a", "i", "l", "e", "d", " ", "w", "i", "t", "h", " ", "s", "t", "a", "t", "u", "s", " ", "c", "o", "d", "e", " ", "4", "0", "1">>),
    AxiosError(TRUE, 500, Undefined, <<"R", "e", "q", "u", "e", "s", "t", " ", "f", "a", "i", "l", "e", "d", " ", "w", "i", "t", "h", " ", "s", "t", "a", "t", "u", "s", " ", "c", "o", "d", "e", " ", "5", "0", "0">>),
    AxiosError(FALSE, 0, Undefined, <<"t", "i", "m", "e", "o", "u", "t", " ", "o", "f", " ", "3", "0", "0", "0", "0", "m", "s", " ", "e", "x", "c", "e", "e", "d", "e", "d">>),
    AxiosSetupError(<<"I", "n", "v", "a", "l", "i", "d", " ", "U", "R", "L">>),
    PlainError(<<"C", "a", "n", "n", "o", "t", " ", "r", "e", "a", "d", " ", "p", "r", "o", "p", "e", "r", "t", "i", "e", "s", " ", "o", "f", " ", "u", "n", "d", "e", "f", "i", "n", "e", "d">>),
    ThrownValue(<<"a", "b", "o", "r", "t", "e", "d">>) }

Success(result) == [ok |-> TRUE, result |-> result, error |-> Undefined]

Failure(error) == [ok |-> FALSE, result |-> Undefined, error |-> error]

\* The result limit the store honours for a request.
EffectiveLimit(call) ==
  IF call.params.sysparm_limit.set /\ call.params.sysparm_limit.v.n < MaxResults
    THEN call.params.sysparm_limit.v.n
    ELSE MaxResults

\* What the store may answer to a request.
Responses(call) ==
  {Failure(e) : e \in StoreErrors}
    \cup
  CASE call.op = "queryTable" ->
         {Success(Arr(rs)) : rs \in SeqsUpTo(StoreRecords, EffectiveLimit(call))}
    [] call.op = "deleteRecord" -> {Success(Undefined)}
    [] OTHER -> {Success(r) : r \in StoreRecords}

(***************************************************************************)
(* Tool inputs.                                                            *)
(***************************************************************************)
\* An object literal: the entries whose value is given.
Payload(entries) == Obj(SelectSeq(entries, LAMBDA e : e.v.t # "undefined"))

SysIdMixed == [i \in 1..SysIdLen |-> IF i % 3 = 0 THEN "c" ELSE IF i % 3 = 1 THEN "D" ELSE "7"]

\* Identifiers of exactly 32 hexadecimal characters, in either case.
HexIdentifiers == {SysIdA, SysIdB, SysIdMixed}

\* Non-empty identifiers that are not 32 hexadecimal characters.
OtherIdentifiers ==
  { <<"I", "N", "C", "0", "0", "1", "0", "0", "0", "1">>,
    <<"I", "N", "C", "0", "0", "9", "9", "9", "9", "9">>,
    SubSeq(SysIdA, 1, SysIdLen - 1),
    Append(SysIdA, "0"),
    [SysIdA EXCEPT ![5] = "g"],
    Append(SysIdA, NEWLINE),
    <<"I", "N", "C", "0", "0", "1", "0", "0", "0", "1", "^", "O", "R", "n", "u", "m", "b", "e", "r", "I", "S", "N", "O", "T", "E", "M", "P", "T", "Y">> }

\* Values of identifier that IncidentGetSchema and the others reject.
BadIdentifierValues == {Undefined, Str(<<>>), Num(42)}

IdentifierValues ==
  {Str(s) : s \in HexIdentifiers \cup OtherIdentifiers} \cup BadIdentifierValues

FieldsValues ==
  { Undefined, Arr(<< Str(<<"n", "u", "m", "b", "e", "r">>), Str(<<"s", "t", "a", "t", "e">>) >>),
    Arr(<< Str(<<"n", "u", "m", "b", "e", "r">>), Num(7) >>) }

\* Absent, configured, a known name without a client, an unknown name, and
\* two falsy values that select the default client.
InstanceValues ==
  {Undefined, Str(<<"d", "e", "v">>), Str(<<"t", "e", "s", "t">>), Str(<<"s", "t", "a", "g", "i", "n", "g">>), Str(<<>>), Null}

ConfirmValues ==
  {Undefined, Bool(TRUE), Bool(FALSE), Str(<<"t", "r", "u", "e">>), Num(1)}

LimitValues ==
  { Undefined, Num(1), Num(25), Num(LimitMax), Num(0), Num(0 - 1),
    Num(LimitMax + 1), NumD(1, 5), NumD(0, 5), NumD(LimitMax, 5),
    Str(<<"1", "0">>), Null }

OperatorValue(op, v) == Obj(<< Entry(<<"o", "p", "e", "r", "a", "t", "o", "r">>, Str(op)), Entry(<<"v", "a", "l", "u", "e">>, v) >>)

\* Filter values QueryValueSchema accepts.
GoodQueryValues ==
  { Str(<<"3">>), Str(<<"N", "e", "w">>), Str(<<>>), Num(3), Bool(TRUE),
    Str(<<"1", "^", "O", "R", "p", "r", "i", "o", "r", "i", "t", "y", "=", "2">>) }
    \cup {OperatorValue(QueryOperators[i], Str(<<"3">>)) : i \in 1..Len(QueryOperators)}
    \cup {OperatorValue(<<"I", "N">>, Str(<<"1", ",", "2", "^", "a", "c", "t", "i", "v", "e", "=", "t", "r", "u", "e">>)),
          OperatorValue(<<"<", "=">>, Num(3))}

\* Filter values QueryValueSchema rejects.
BadQueryValues ==
  { Null, Arr(<< Str(<<"1">>) >>), Obj(<< Entry(<<"v", "a", "l", "u", "e">>, Str(<<"3">>)) >>),
    OperatorValue(<<"~", "=">>, Str(<<"3">>)),
    OperatorValue(<<"=">>, Obj(<<>>)) }

QueryValues == GoodQueryValues \cup BadQueryValues

FilterValues ==
  {Undefined, Obj(<<>>), Str(<<"s", "t", "a", "t", "e", "=", "1">>), Null}
    \cup {Obj(<< Entry(<<"p", "r", "i", "o", "r", "i", "t", "y">>, v) >>) : v \in QueryValues}
    \cup {Obj(<< Entry(<<"s", "t", "a", "t", "e">>, v), Entry(<<"p", "r", "i", "o", "r", "i", "t", "y">>, w) >>) :
            v \in {Str(<<"N", "e", "w">>), Null}, w \in QueryValues}
    \cup {Obj(<< Entry(<<>>, Str(<<"x">>)) >>),
          Obj(<< Entry(<<"s", "t", "a", "t", "e">>, Str(<<"1">>)), Entry(<<"p", "r", "i", "o", "r", "i", "t", "y">>, Str(<<"2">>)),
                 Entry(<<"a", "c", "t", "i", "v", "e">>, Bool(TRUE)) >>),
          Obj(<< Entry(<<"s", "t", "a", "t", "e">>, Str(<<"N", "e", "w">>)),
                 Entry(<<"p", "r", "i", "o", "r", "i", "t", "y">>, Str(<<"C", "r", "i", "t", "i", "c", "a", "l">>)) >>),
          Obj(<< Entry(<<"s", "t", "a", "t", "e">>, Str(<<"1">>)), Entry(<<"p", "r", "i", "o", "r", "i", "t", "y">>, Str(<<"1">>)) >>),
          Obj(<< Entry(<<"u", "r", "g", "e", "n", "c", "y">>, Str(<<"M", "e", "d", "i", "u", "m">>)),
                 Entry(<<"i", "m", "p", "a", "c", "t">>, Str(<<"L", "o", "w">>)) >>),
          Obj(<< Entry(<<"s", "h", "o", "r", "t", "_", "d", "e", "s", "c", "r", "i", "p", "t", "i", "o", "n">>,
                       OperatorValue(<<"C", "O", "N", "T", "A", "I", "N", "S">>, Str(<<"n", "e", "t", "w", "o", "r", "k">>))) >>),
          Obj(<< Entry(<<"c", "r", "e", "a", "t", "e", "d">>,
                       OperatorValue(<<">", "=">>, Str(<<"2", "0", "2", "4", "-", "0", "1", "-", "0", "1">>))) >>)}

QueryInputs ==
  {Undefined}
    \cup {Payload(<< Entry(<<"f", "i", "l", "t", "e", "r">>, f) >>) : f \in FilterValues}
    \cup {Payload(<< Entry(<<"f", "i", "l", "t", "e", "r">>, f), Entry(<<"l", "i", "m", "i", "t">>, l) >>) :
            f \in {Undefined, Obj(<<>>), Obj(<< Entry(<<"p", "r", "i", "o", "r", "i", "t", "y">>, Null) >>)},
            l \in LimitValues}
    \cup {Payload(<< Entry(<<"l", "i", "m", "i", "t">>, l), Entry(<<"f", "i", "e", "l", "d", "s">>, fs),
                     Entry(<<"i", "n", "s", "t", "a", "n", "c", "e">>, ins) >>) :
            l \in {Undefined, Num(0)}, fs \in FieldsValues,
            ins \in InstanceValues}

GetInputs ==
  {Undefined}
    \cup {Payload(<< Entry(<<"i", "d", "e", "n", "t", "i", "f", "i", "e", "r">>, id), Entry(<<"f", "i", "e", "l", "d", "s">>, fs) >>) :
            id \in IdentifierValues, fs \in FieldsValues}
    \cup {Payload(<< Entry(<<"i", "d", "e", "n", "t", "i", "f", "i", "e", "r">>, id), Entry(<<"i", "n", "s", "t", "a", "n", "c", "e">>, ins) >>) :
            id \in {Str(<<"I", "N", "C", "0", "0", "1", "0", "0", "0", "1">>), Str(<<>>)}, ins \in InstanceValues}

DeleteInputs ==
  {Undefined}
    \cup {Payload(<< Entry(<<"i", "d", "e", "n", "t", "i", "f", "i", "e", "r">>, id), Entry(<<"c", "o", "n", "f", "i", "r", "m">>, c) >>) :
            id \in IdentifierValues, c \in ConfirmValues}
    \cup {Payload(<< Entry(<<"i", "d", "e", "n", "t", "i", "f", "i", "e", "r">>, id), Entry(<<"c", "o", "n", "f", "i", "r", "m">>, c),
                     Entry(<<"i", "n", "s", "t", "a", "n", "c", "e">>, ins) >>) :
            id \in {Str(SysIdA), Str(<<>>)}, c \in {Bool(TRUE), Bool(FALSE)},
            ins \in InstanceValues}

\* One enumerated field set to each of the values its enum lists, and to
\* values outside it.
EnumFieldValues ==
  {Entry(<<"s", "t", "a", "t", "e">>, Str(stateValues[i])) : i \in 1..Len(stateValues)}
    \cup {Entry(<<"p", "r", "i", "o", "r", "i", "t", "y">>, Str(priorityValues[i])) : i \in 1..Len(priorityValues)}
    \cup {Entry(<<"u", "r", "g", "e", "n", "c", "y">>, Str(urgencyValues[i])) : i \in 1..Len(urgencyValues)}
    \cup {Entry(<<"i", "m", "p", "a", "c", "t">>, Str(urgencyValues[i])) : i \in 1..Len(urgencyValues)}
    \cup { Entry(<<"s", "t", "a", "t", "e">>, Str(<<"W", "o", "r", "k", "i", "n", "g">>)), Entry(<<"s", "t", "a", "t", "e">>, Str(<<"n", "e", "w">>)),
           Entry(<<"p", "r", "i", "o", "r", "i", "t", "y">>, Str(<<"M", "e", "d", "i", "u", "m">>)), Entry(<<"p", "r", "i", "o", "r", "i", "t", "y">>, Num(1)),
           Entry(<<"u", "r", "g", "e", "n", "c", "y">>, Str(<<"C", "r", "i", "t", "i", "c", "a", "l">>)), Entry(<<"i", "m", "p", "a", "c", "t">>, Str(<<"4">>)),
           Entry(<<"s", "t", "a", "t", "e">>, Undefined) }

UpdateInputs ==
  {Undefined}
    \cup {Payload(<< Entry(<<"i", "d", "e", "n", "t", "i", "f", "i", "e", "r">>, id), e,
                     Entry(<<"w", "o", "r", "k", "_", "n", "o", "t", "e", "s">>, Str(<<"I", "n", "v", "e", "s", "t", "i", "g", "a", "t", "i", "n", "g">>)) >>) :
            id \in {Str(SysIdB), Str(<<"I", "N", "C", "0", "0", "1", "0", "0", "0", "1">>)}, e \in EnumFieldValues}
    \cup {Payload(<< Entry(<<"i", "d", "e", "n", "t", "i", "f", "i", "e", "r">>, id), Entry(<<"s", "t", "a", "t", "e">>, s),
                     Entry(<<"i", "n", "s", "t", "a", "n", "c", "e">>, ins) >>) :
            id \in IdentifierValues, s \in {Str(<<"R", "e", "s", "o", "l", "v", "e", "d">>), Str(<<"W", "o", "r", "k", "i", "n", "g">>)},
            ins \in {Undefined, Str(<<"s", "t", "a", "g", "i", "n", "g">>), Str(<<>>)}}
    \cup {Payload(<< Entry(<<"i", "d", "e", "n", "t", "i", "f", "i", "e", "r">>, id), Entry(<<"s", "t", "a", "t", "e">>, s),
                     Entry(<<"p", "r", "i", "o", "r", "i", "t", "y">>, p), Entry(<<"u", "_", "c", "u", "s", "t", "o", "m">>, x) >>) :
            id \in {Str(<<"I", "N", "C", "0", "0", "1", "0", "0", "0", "1">>), Str(<<>>)},
            s \in {Undefined, Str(<<"R", "e", "s", "o", "l", "v", "e", "d">>), Str(<<"W", "o", "r", "k", "i", "n", "g">>)},
            p \in {Undefined, Str(<<"C", "r", "i", "t", "i", "c", "a", "l">>), Str(<<"U", "r", "g", "e", "n", "t">>)},
            x \in {Undefined, Str(<<"x">>)}}
    \cup {Payload(<< Entry(<<"u", "_", "c", "u", "s", "t", "o", "m">>, Num(7)), Entry(<<"i", "d", "e", "n", "t", "i", "f", "i", "e", "r">>, id),
                     Entry(<<"s", "t", "a", "t", "e">>, Str(<<"I", "n", " ", "P", "r", "o", "g", "r", "e", "s", "s">>)),
                     Entry(<<"p", "r", "i", "o", "r", "i", "t", "y">>, Str(<<"H", "i", "g", "h">>)),
                     Entry(<<"u", "r", "g", "e", "n", "c", "y">>, Str(<<"2">>)), Entry(<<"i", "m", "p", "a", "c", "t">>, Str(<<"L", "o", "w">>)),
                     Entry(<<"c", "o", "m", "m", "e", "n", "t", "s">>, Str(<<>>)), Entry(<<"i", "n", "s", "t", "a", "n", "c", "e">>, ins) >>) :
            id \in {Str(SysIdMixed), Str(<<"I", "N", "C", "0", "0", "1", "0", "0", "0", "2">>)},
            ins \in {Undefined, Str(<<"d", "e", "v">>), Str(<<"p", "r", "i", "m", "a", "r", "y">>), Str(<<"p", "r", "o", "d">>)}}

CreateInputs ==
  {Undefined}
    \cup {Payload(<< Entry(<<"s", "h", "o", "r", "t", "_", "d", "e", "s", "c", "r", "i", "p", "t", "i", "o", "n">>, Str(<<"X">>)), e >>) :
            e \in EnumFieldValues}
    \cup {Payload(<< Entry(<<"s", "h", "o", "r", "t", "_", "d", "e", "s", "c", "r", "i", "p", "t", "i", "o", "n">>, sd),
                     Entry(<<"d", "e", "s", "c", "r", "i", "p", "t", "i", "o", "n">>, d) >>) :
            sd \in {Undefined, Str(<<>>), Str(<<"X">>), Num(1)},
            d \in {Undefined, Str(<<>>), Str(<<"d", "e", "t", "a", "i", "l", "s">>), Num(2)}}
    \cup {Payload(<< Entry(<<"s", "h", "o", "r", "t", "_", "d", "e", "s", "c", "r", "i", "p", "t", "i", "o", "n">>, sd), Entry(<<"p", "r", "i", "o", "r", "i", "t", "y">>, p),
                     Entry(<<"u", "r", "g", "e", "n", "c", "y">>, u), Entry(<<"u", "_", "c", "u", "s", "t", "o", "m">>, x) >>) :
            sd \in {Str(<<>>), Str(<<"X">>)},
            p \in {Undefined, Str(<<"C", "r", "i", "t", "i", "c", "a", "l">>), Str(<<"U", "r", "g", "e", "n", "t">>)},
            u \in {Undefined, Str(<<"H", "i", "g", "h">>), Str(<<"C", "r", "i", "t", "i", "c", "a", "l">>)},
            x \in {Undefined, Str(<<"x">>)}}
    \cup {Payload(<< Entry(<<"s", "h", "o", "r", "t", "_", "d", "e", "s", "c", "r", "i", "p", "t", "i", "o", "n">>, Str(<<"S", "e", "r", "v", "e", "r", " ", "d", "o", "w", "n">>)),
                     Entry(<<"p", "r", "i", "o", "r", "i", "t", "y">>, Str(<<"C", "r", "i", "t", "i", "c", "a", "l">>)),
                     Entry(<<"u", "r", "g", "e", "n", "c", "y">>, Str(<<"H", "i", "g", "h">>)),
                     Entry(<<"s", "t", "a", "t", "e">>, s), Entry(<<"i", "n", "s", "t", "a", "n", "c", "e">>, ins) >>) :
            s \in {Undefined, Str(<<"I", "n", " ", "P", "r", "o", "g", "r", "e", "s", "s">>), Str(<<"2">>), Str(<<"W", "o", "r", "k", "i", "n", "g">>)},
            ins \in {Undefined, Str(<<"d", "e", "v">>), Str(<<"t", "e", "s", "t">>)}}

(***************************************************************************)
(* Configuration: config-schemas.ts and config/index.ts.                   *)
(***************************************************************************)
Letters == Range(<<"a", "b", "c", "d", "e", "f", "g", "h", "i", "j", "k", "l", "m", "n", "o", "p", "q", "r", "s", "t", "u", "v", "w", "x", "y", "z", "A", "B", "C", "D", "E", "F", "G", "H", "I", "J", "K", "L", "M", "N", "O", "P", "Q", "R", "S", "T", "U", "V", "W", "X", "Y", "Z">>)

\* new URL(url) succeeds: a scheme that starts with a letter, a colon, and
\* for http and https a host after the slashes.
IsUrl(url) ==
  \E i \in 2..Len(url) :
    /\ url[i] = ":"
    /\ \A j \in 1..(i - 1) : url[j] \in Letters
    /\ LET scheme == SubSeq(url, 1, i - 1)
           rest == SubSeq(url, i + 1, Len(url))
       IN  scheme \in {<<"h", "t", "t", "p">>, <<"h", "t", "t", "p", "s">>} =>
             \E k \in 1..Len(rest) : rest[k] # "/"

\* url.replace(/\/$/, '')
RemoveTrailingSlash(url) ==
  IF Len(url) > 0 /\ url[Len(url)] = "/" THEN SubSeq(url, 1, Len(url) - 1) ELSE url

\* z.string().url(...).refine(startsWith('https://')).transform(...): the
\* refinement runs after a failed url check, the transform only when valid.
ServiceNowUrlSchema(v, path) ==
  IF v.t # "string" THEN ZString(v, path)
  ELSE LET issues ==
             (IF IsUrl(v.s) THEN <<>>
              ELSE <<Issue(path, <<"I", "n", "s", "t", "a", "n", "c", "e", " ", "U", "R", "L", " ", "m", "u", "s", "t", " ", "b", "e", " ", "a", " ", "v", "a", "l", "i", "d", " ", "U", "R", "L">>)>>)
             \o (IF StartsWith(v.s, <<"h", "t", "t", "p", "s", ":", "/", "/">>) THEN <<>>
                 ELSE <<Issue(path, <<"I", "n", "s", "t", "a", "n", "c", "e", " ", "U", "R", "L", " ", "m", "u", "s", "t", " ", "u", "s", "e", " ", "H", "T", "T", "P", "S">>)>>)
       IN  IF issues = <<>> THEN Ok(Str(RemoveTrailingSlash(v.s)))
           ELSE [issues |-> issues, out |-> Undefined]

UsernameSchema(v, path) == ZStringMin1(v, path, <<"U", "s", "e", "r", "n", "a", "m", "e", " ", "c", "a", "n", "n", "o", "t", " ", "b", "e", " ", "e", "m", "p", "t", "y">>)

PasswordSchema(v, path) == ZStringMin1(v, path, <<"P", "a", "s", "s", "w", "o", "r", "d", " ", "c", "a", "n", "n", "o", "t", " ", "b", "e", " ", "e", "m", "p", "t", "y">>)

\* z.object({ url, username, password })
ServiceNowInstanceConfigSchema(v, path) ==
  IF v.t = "undefined" THEN Fail(path, <<"R", "e", "q", "u", "i", "r", "e", "d">>)
  ELSE IF v.t # "object" THEN Fail(path, <<"E", "x", "p", "e", "c", "t", "e", "d", " ", "o", "b", "j", "e", "c", "t">>)
  ELSE LET url == ServiceNowUrlSchema(Get(v, <<"u", "r", "l">>), path \o <<<<"u", "r", "l">>>>)
           username == UsernameSchema(Get(v, <<"u", "s", "e", "r", "n", "a", "m", "e">>), path \o <<<<"u", "s", "e", "r", "n", "a", "m", "e">>>>)
           password == PasswordSchema(Get(v, <<"p", "a", "s", "s", "w", "o", "r", "d">>), path \o <<<<"p", "a", "s", "s", "w", "o", "r", "d">>>>)
           issues == url.issues \o username.issues \o password.issues
       IN  IF issues # <<>> THEN [issues |-> issues, out |-> Undefined]
           ELSE Ok(Obj(<< Entry(<<"u", "r", "l">>, url.out), Entry(<<"u", "s", "e", "r", "n", "a", "m", "e">>, username.out),
                          Entry(<<"p", "a", "s", "s", "w", "o", "r", "d">>, password.out) >>))

\* z.enum(['primary', 'dev', 'test', 'prod']).default('primary')
DefaultInstanceSchema(v, path) ==
  IF v.t = "undefined" THEN Ok(Str(<<"p", "r", "i", "m", "a", "r", "y">>))
  ELSE ZEnum(v, path, InstanceNames)

\* A schema without the refinement that the default instance is configured.
ServiceNowConfigSchemaMutant(v) ==
  LET instances == Get(v, <<"i", "n", "s", "t", "a", "n", "c", "e", "s">>)
      parsed == [i \in 1..Len(InstanceNames) |->
                   ZOptional(Get(instances, InstanceNames[i]),
                             ServiceNowInstanceConfigSchema(
                               Get(instances, InstanceNames[i]),
                               <<<<"i", "n", "s", "t", "a", "n", "c", "e", "s">>, InstanceNames[i]>>))]
      out == Obj(<< Entry(<<"i", "n", "s", "t", "a", "n", "c", "e", "s">>,
                          Obj([i \in 1..Len(InstanceNames) |->
                                 Entry(InstanceNames[i], parsed[i].out)])),
                    Entry(<<"d", "e", "f", "a", "u", "l", "t", "I", "n", "s", "t", "a", "n", "c", "e">>, Get(v, <<"d", "e", "f", "a", "u", "l", "t", "I", "n", "s", "t", "a", "n", "c", "e">>)) >>)
  IN  Ok(out)

\* z.object({ instances: z.object({...}).refine(some instance is defined),
\* defaultInstance }).refine(instances[defaultInstance] is defined). Both
\* refinements run when the properties themselves are valid.
ServiceNowConfigSchema(v) ==
  LET instances == Get(v, <<"i", "n", "s", "t", "a", "n", "c", "e", "s">>)
      parsed == [i \in 1..Len(InstanceNames) |->
                   ZOptional(Get(instances, InstanceNames[i]),
                             ServiceNowInstanceConfigSchema(
                               Get(instances, InstanceNames[i]),
                               <<<<"i", "n", "s", "t", "a", "n", "c", "e", "s">>, InstanceNames[i]>>))]
      default == DefaultInstanceSchema(Get(v, <<"d", "e", "f", "a", "u", "l", "t", "I", "n", "s", "t", "a", "n", "c", "e">>),
                                       <<<<"d", "e", "f", "a", "u", "l", "t", "I", "n", "s", "t", "a", "n", "c", "e">>>>)
      inner == FlattenIssues(parsed) \o default.issues
      out == Obj(<< Entry(<<"i", "n", "s", "t", "a", "n", "c", "e", "s">>,
                          Obj([i \in 1..Len(InstanceNames) |->
                                 Entry(InstanceNames[i], parsed[i].out)])),
                    Entry(<<"d", "e", "f", "a", "u", "l", "t", "I", "n", "s", "t", "a", "n", "c", "e">>, default.out) >>)
      someInstance ==
        \E i \in 1..Len(InstanceNames) : parsed[i].out # Undefined
      defaultConfigured ==
        Get(Get(out, <<"i", "n", "s", "t", "a", "n", "c", "e", "s">>), default.out.s) # Undefined
      refinements ==
        (IF someInstance THEN <<>>
         ELSE <<Issue(<<<<"i", "n", "s", "t", "a", "n", "c", "e", "s">>>>,
                      <<"A", "t", " ", "l", "e", "a", "s", "t", " ", "o", "n", "e", " ", "S", "e", "r", "v", "i", "c", "e", "N", "o", "w", " ", "i", "n", "s", "t", "a", "n", "c", "e", " ", "m", "u", "s", "t", " ", "b", "e", " ", "c", "o", "n", "f", "i", "g", "u", "r", "e", "d">>)>>)
        \o (IF defaultConfigured THEN <<>>
            ELSE <<Issue(<<>>, <<"D", "e", "f", "a", "u", "l", "t", " ", "i", "n", "s", "t", "a", "n", "c", "e", " ", "i", "s", " ", "n", "o", "t", " ", "c", "o", "n", "f", "i", "g", "u", "r", "e", "d", ".", " ", "P", "l", "e", "a", "s", "e", " ", "c", "o", "n", "f", "i", "g", "u", "r", "e", " ", "i", "t", " ", "o", "r", " ", "c", "h", "a", "n", "g", "e", " ", "S", "E", "R", "V", "I", "C", "E", "N", "O", "W", "_", "D", "E", "F", "A", "U", "L", "T", "_", "I", "N", "S", "T", "A", "N", "C", "E", ".">>)>>)
  IN  IF inner # <<>> THEN [issues |-> inner, out |-> Undefined]
      ELSE IF refinements # <<>> THEN [issues |-> refinements, out |-> Undefined]
      ELSE Ok(out)

\* What a function of config/index.ts gives: a value, or an Error thrown.
Value(v) == [threw |-> FALSE, value |-> v, message |-> <<>>]

Throws(message) == [threw |-> TRUE, value |-> Undefined, message |-> message]

\* process.env[name]
EnvOf(e, name) == Get(e, name)

loadInstanceConfig(e, prefix) ==
  LET url == EnvOf(e, prefix \o <<"_", "U", "R", "L">>)
      username == EnvOf(e, prefix \o <<"_", "U", "S", "E", "R", "N", "A", "M", "E">>)
      password == EnvOf(e, prefix \o <<"_", "P", "A", "S", "S", "W", "O", "R", "D">>)
      r == ServiceNowInstanceConfigSchema(
             Obj(<< Entry(<<"u", "r", "l">>, url), Entry(<<"u", "s", "e", "r", "n", "a", "m", "e">>, username),
                    Entry(<<"p", "a", "s", "s", "w", "o", "r", "d">>, password) >>), <<>>)
      errors == Join([i \in 1..Len(r.issues) |->
                        Join(r.issues[i].path, <<".">>) \o <<":", " ">>
                          \o r.issues[i].message], <<",", " ">>)
  IN  IF ~Truthy(url) \/ ~Truthy(username) \/ ~Truthy(password)
        THEN Value(Undefined)
      ELSE IF r.issues # <<>>
        THEN Throws(<<"I", "n", "v", "a", "l", "i", "d", " ", "c", "o", "n", "f", "i", "g", "u", "r", "a", "t", "i", "o", "n", " ", "f", "o", "r", " ">> \o prefix \o <<":", " ">> \o errors)
      ELSE Value(r.out)

\* The prefix of the environment variables of each instance, in the order
\* loadConfig loads them.
InstancePrefixes ==
  << <<"S", "E", "R", "V", "I", "C", "E", "N", "O", "W", "_", "I", "N", "S", "T", "A", "N", "C", "E">>, <<"S", "E", "R", "V", "I", "C", "E", "N", "O", "W", "_", "D", "E", "V">>, <<"S", "E", "R", "V", "I", "C", "E", "N", "O", "W", "_", "T", "E", "S", "T">>,
     <<"S", "E", "R", "V", "I", "C", "E", "N", "O", "W", "_", "P", "R", "O", "D">> >>

loadConfig(e) ==
  LET loaded == [i \in 1..Len(InstancePrefixes) |->
                   loadInstanceConfig(e, InstancePrefixes[i])]
      parsedDefault ==
        DefaultInstanceSchema(EnvOf(e, <<"S", "E", "R", "V", "I", "C", "E", "N", "O", "W", "_", "D", "E", "F", "A", "U", "L", "T", "_", "I", "N", "S", "T", "A", "N", "C", "E">>), <<>>)
      default ==
        IF parsedDefault.issues = <<>> THEN parsedDefault.out ELSE Str(<<"p", "r", "i", "m", "a", "r", "y">>)
      cfg == Obj(<< Entry(<<"i", "n", "s", "t", "a", "n", "c", "e", "s">>,
                          Obj([i \in 1..Len(InstanceNames) |->
                                 Entry(InstanceNames[i], loaded[i].value)])),
                    Entry(<<"d", "e", "f", "a", "u", "l", "t", "I", "n", "s", "t", "a", "n", "c", "e">>, default) >>)
      r == ServiceNowConfigSchema(cfg)
      errors == Join([i \in 1..Len(r.issues) |-> r.issues[i].message], <<".", " ">>)
  IN  IF \E i \in 1..Len(loaded) : loaded[i].threw
        THEN loaded[CHOOSE i \in 1..Len(loaded) :
                      loaded[i].threw /\ \A j \in 1..(i - 1) : ~loaded[j].threw]
      ELSE IF r.issues # <<>>
        THEN Throws(<<"C", "o", "n", "f", "i", "g", "u", "r", "a", "t", "i", "o", "n", " ", "v", "a", "l", "i", "d", "a", "t", "i", "o", "n", " ", "f", "a", "i", "l", "e", "d", ":", " ">> \o errors)
      ELSE Value(r.out)

\* The keys of this.clients: the names whose instance is configured.
ClientsOf(cfg) ==
  SelectSeq(InstanceNames, LAMBDA name : Truthy(Get(Get(cfg, <<"i", "n", "s", "t", "a", "n", "c", "e", "s">>), name)))

(***************************************************************************)
(* Environments the server may be started in.                              *)
(***************************************************************************)
Setting(url, username, password) ==
  [url |-> url, username |-> username, password |-> password]

NoSetting == Setting(Undefined, Undefined, Undefined)

Complete == Setting(Str(<<"h", "t", "t", "p", "s", ":", "/", "/", "d", "e", "v", ".", "s", "e", "r", "v", "i", "c", "e", "-", "n", "o", "w", ".", "c", "o", "m">>), Str(<<"a", "d", "m", "i", "n">>), Str(<<"s", "e", "c", "r", "e", "t">>))

\* Settings of one instance: complete, incomplete in each way, and with a
\* URL the schema refuses or rewrites.
Settings ==
  { NoSetting, Complete,
    Setting(Str(<<"h", "t", "t", "p", "s", ":", "/", "/", "d", "e", "v", ".", "s", "e", "r", "v", "i", "c", "e", "-", "n", "o", "w", ".", "c", "o", "m", "/">>), Str(<<"a", "d", "m", "i", "n">>), Str(<<"s", "e", "c", "r", "e", "t">>)),
    Setting(Str(<<"h", "t", "t", "p", "s", ":", "/", "/", "d", "e", "v", ".", "s", "e", "r", "v", "i", "c", "e", "-", "n", "o", "w", ".", "c", "o", "m">>), Str(<<"a", "d", "m", "i", "n">>), Undefined),
    Setting(Str(<<"h", "t", "t", "p", "s", ":", "/", "/", "d", "e", "v", ".", "s", "e", "r", "v", "i", "c", "e", "-", "n", "o", "w", ".", "c", "o", "m">>), Str(<<>>), Str(<<"s", "e", "c", "r", "e", "t">>)),
    Setting(Undefined, Str(<<"a", "d", "m", "i", "n">>), Str(<<"s", "e", "c", "r", "e", "t">>)),
    Setting(Str(<<"h", "t", "t", "p", ":", "/", "/", "d", "e", "v", ".", "s", "e", "r", "v", "i", "c", "e", "-", "n", "o", "w", ".", "c", "o", "m">>), Str(<<"a", "d", "m", "i", "n">>), Str(<<"s", "e", "c", "r", "e", "t">>)),
    Setting(Str(<<"d", "e", "v", ".", "s", "e", "r", "v", "i", "c", "e", "-", "n", "o", "w", ".", "c", "o", "m">>), Str(<<"a", "d", "m", "i", "n">>), Str(<<"s", "e", "c", "r", "e", "t">>)) }

InstanceEnv(prefix, setting) ==
  << Entry(prefix \o <<"_", "U", "R", "L">>, setting.url),
     Entry(prefix \o <<"_", "U", "S", "E", "R", "N", "A", "M", "E">>, setting.username),
     Entry(prefix \o <<"_", "P", "A", "S", "S", "W", "O", "R", "D">>, setting.password) >>

DefaultChoices ==
  { Undefined, Str(<<>>), Str(<<"p", "r", "i", "m", "a", "r", "y">>), Str(<<"d", "e", "v">>), Str(<<"p", "r", "o", "d">>),
    Str(<<"s", "t", "a", "g", "i", "n", "g">>), Str(<<"D", "E", "V">>) }

Environment(primary, dev, test, prod, default) ==
  Payload(InstanceEnv(InstancePrefixes[1], primary)
            \o InstanceEnv(InstancePrefixes[2], dev)
            \o InstanceEnv(InstancePrefixes[3], test)
            \o InstanceEnv(InstancePrefixes[4], prod)
            \o << Entry(<<"S", "E", "R", "V", "I", "C", "E", "N", "O", "W", "_", "D", "E", "F", "A", "U", "L", "T", "_", "I", "N", "S", "T", "A", "N", "C", "E">>, default) >>)

Environments ==
  { Environment(primary, dev, NoSetting, prod, default) :
      primary \in Settings,
      dev \in {NoSetting, Complete,
               Setting(Str(<<"h", "t", "t", "p", "s", ":", "/", "/", "d", "e", "v", ".", "s", "e", "r", "v", "i", "c", "e", "-", "n", "o", "w", ".", "c", "o", "m">>), Str(<<"a", "d", "m", "i", "n">>), Undefined)},
      prod \in {NoSetting, Complete},
      default \in DefaultChoices }

\* The environment of the server whose tool calls are modelled: the primary
\* and the dev instance are set, the default instance is not.
ServerEnvironment == Environment(Complete, Complete, NoSetting, NoSetting, Undefined)

\* this.config before the constructor ran.
NotLoaded == [threw |-> FALSE, value |-> Null, message |-> <<>>]

NoneSelected == [asked |-> FALSE, instance |-> Undefined, found |-> FALSE]
(***************************************************************************)
(* The incident tools.  Each tool runs up to its first await in one step;  *)
(* each await resumes in a step of its own when the store answers.         *)
(***************************************************************************)
\* Stands for the check mark (U+2713) that opens the success messages.
CHECKMARK == "+"

Text(s) == [t |-> "text", s |-> s]

\* JSON.stringify(v, null, 2), kept symbolic.
Json(v) == [t |-> "json", v |-> v]

NoOutcome == [kind |-> "none", text |-> <<>>]

\* The tool's promise resolves with this text.
Returned(parts) == [kind |-> "returned", text |-> parts]

\* The tool's promise rejects with new Error(message).
Thrown(message) == [kind |-> "thrown", text |-> <<Text(message)>>]

\* No reply has been sent for the request.
NoResponse == [content |-> <<>>, isError |-> Undefined]

\* handleIncidentTool: the text the handler resolved with, as the one content
\* item of the reply; the reply has no isError property.
handleIncidentTool(result) ==
  [content |-> <<[type |-> "text", text |-> result]>>, isError |-> Undefined]

\* A catch block that replies without the isError flag.
CallToolCatchMutant(errorMessage) ==
  [ content |-> <<[type |-> "text",
                   text |-> <<Text(<<"E", "r", "r", "o", "r", ":", " ">> \o errorMessage)>>]>>,
    isError |-> Undefined ]

\* The catch block of the CallTool handler: `Error: ${errorMessage}`, isError.
CallToolCatch(errorMessage) ==
  [ content |-> <<[type |-> "text",
                   text |-> <<Text(<<"E", "r", "r", "o", "r", ":", " ">> \o errorMessage)>>]>>,
    isError |-> Bool(TRUE) ]

NoLocals ==
  [validatedArgs |-> Undefined, sysId |-> Undefined, incidentNumber |-> Undefined]

\* An invocation that has not begun.
NotStarted ==
  [ pc |-> "idle", tool |-> "none", args |-> Undefined, client |-> Undefined,
    locals |-> NoLocals, calls |-> <<>>, replies |-> <<>>,
    outcome |-> NoOutcome, response |-> NoResponse ]

LastCall == calls[Len(calls)]

\* The not-found text without the quotes around the identifier.
NotFoundTextMutant(identifier) ==
  <<Text(<<"I", "n", "c", "i", "d", "e", "n", "t", " ">> \o StringOf(identifier) \o <<" ", "n", "o", "t", " ", "f", "o", "u", "n", "d", ".">>)>>

\* `Incident "${identifier}" not found.`
NotFoundText(identifier) ==
  <<Text(<<"I", "n", "c", "i", "d", "e", "n", "t", " ">> \o <<DQUOTE>> \o StringOf(identifier) \o <<DQUOTE>>
           \o <<" ", "n", "o", "t", " ", "f", "o", "u", "n", "d", ".">>)>>

\* { number: identifier }, { limit: 1, fields }
LookupByNumber(identifier, fields) ==
  queryTable(INCIDENT_TABLE, Obj(<< Entry(<<"n", "u", "m", "b", "e", "r">>, identifier) >>),
             [limit |-> Num(1), fields |-> fields])

SysIdAndNumber == Arr(<< Str(<<"s", "y", "s", "_", "i", "d">>), Str(<<"n", "u", "m", "b", "e", "r">>) >>)

\* The clients the server built from its configuration, and its default.
clients == ClientsOf(config.value)

defaultInstance == Get(config.value, <<"d", "e", "f", "a", "u", "l", "t", "I", "n", "s", "t", "a", "n", "c", "e">>).s

InSeq(s, x) == \E i \in 1..Len(s) : s[i] = x

\* (args as any)?.instance
InstanceOf(a) == IF a.t = "object" THEN Get(a, <<"i", "n", "s", "t", "a", "n", "c", "e">>) ELSE Undefined

\* A getClient that always takes the default instance.
InstanceNameMutant(a) == Str(defaultInstance)

\* instanceName || this.config.defaultInstance
InstanceName(a) ==
  IF Truthy(InstanceOf(a)) THEN InstanceOf(a) ELSE Str(defaultInstance)

\* this.clients.get(name) is defined.
HasClient(name) == name.t = "string" /\ InSeq(clients, name.s)

\* The message of the not-configured error of getClient.
NotConfiguredMessage(name) ==
  <<"S", "e", "r", "v", "i", "c", "e", "N", "o", "w", " ", "i", "n", "s", "t", "a", "n", "c", "e", " ">> \o <<DQUOTE>> \o StringOf(name)
    \o <<DQUOTE>> \o <<" ", "i", "s", " ", "n", "o", "t", " ", "c", "o", "n", "f", "i", "g", "u", "r", "e", "d", ".", " ", "A", "v", "a", "i", "l", "a", "b", "l", "e", " ", "i", "n", "s", "t", "a", "n", "c", "e", "s", ":", " ">>
    \o Join(clients, <<",", " ">>)

\* getClient throws: the tool is never entered.
NotConfigured(name) ==
  /\ pc' = "done"
  /\ client' = Undefined
  /\ outcome' = Thrown(NotConfiguredMessage(name))
  /\ response' = CallToolCatch(NotConfiguredMessage(name))
  /\ calls' = <<>>
  /\ locals' = NoLocals

\* A tool is invoked.
Start(name, a) ==
  /\ pc = "idle"
  /\ config.value.t = "object"
  /\ UNCHANGED startupVars
  /\ tool' = name
  /\ args' = a
  /\ replies' = <<>>

\* A tool that queries the table before it reports the issues.
ValidationFailsMutant(issues) ==
  /\ pc' = "done"
  /\ outcome' = Thrown(formatValidationError(issues))
  /\ response' = CallToolCatch(formatValidationError(issues))
  /\ calls' = <<queryTable(INCIDENT_TABLE, Undefined, NoOptions)>>
  /\ locals' = NoLocals

\* schema.parse(args) threw a ZodError: the tool throws the formatted issues
\* and calls nothing.
ValidationFails(issues) ==
  /\ pc' = "done"
  /\ outcome' = Thrown(formatValidationError(issues))
  /\ response' = CallToolCatch(formatValidationError(issues))
  /\ calls' = <<>>
  /\ locals' = NoLocals

\* The tool's first store call, issued after a successful parse.
FirstCall(label, call, validatedArgs) ==
  /\ pc' = label
  /\ calls' = <<[call EXCEPT !.client = client']>>
  /\ locals' = [NoLocals EXCEPT !.validatedArgs = validatedArgs]
  /\ outcome' = NoOutcome
  /\ response' = NoResponse

\* The tool issues a store call and awaits it.
Await(resp, label, call, newLocals) ==
  /\ pc' = label
  /\ calls' = Append(calls, [call EXCEPT !.client = client])
  /\ replies' = Append(replies, resp)
  /\ locals' = newLocals
  /\ UNCHANGED <<tool, args, client, outcome, response>>
  /\ UNCHANGED startupVars

\* A tool that swallows the store's error and reports an empty result.
StoreFailsMutant(resp) ==
  /\ pc' = "done"
  /\ outcome' = Returned(<<Text(<<"N", "o", " ", "i", "n", "c", "i", "d", "e", "n", "t", "s", " ", "f", "o", "u", "n", "d", " ", "m", "a", "t", "c", "h", "i", "n", "g", " ", "t", "h", "e", " ", "c", "r", "i", "t", "e", "r", "i", "a", ".">>)>>)
  /\ response' =
       handleIncidentTool(<<Text(<<"N", "o", " ", "i", "n", "c", "i", "d", "e", "n", "t", "s", " ", "f", "o", "u", "n", "d", " ", "m", "a", "t", "c", "h", "i", "n", "g", " ", "t", "h", "e", " ", "c", "r", "i", "t", "e", "r", "i", "a", ".">>)>>)
  /\ replies' = Append(replies, resp)
  /\ UNCHANGED <<tool, args, client, locals, calls>>
  /\ UNCHANGED startupVars

\* A tool that issues the failed call again, up to a third call.
StoreFailsRetriesMutant(resp) ==
  IF Len(calls) < 3
    THEN /\ calls' = Append(calls, LastCall)
         /\ replies' = Append(replies, resp)
         /\ UNCHANGED <<pc, tool, args, client, locals, outcome, response>>
         /\ UNCHANGED startupVars
    ELSE /\ pc' = "done"
         /\ outcome' = Thrown(handleError(resp.error, ErrorContext(LastCall)))
         /\ response' = CallToolCatch(handleError(resp.error, ErrorContext(LastCall)))
         /\ replies' = Append(replies, resp)
         /\ UNCHANGED <<tool, args, client, locals, calls>>
         /\ UNCHANGED startupVars

\* The awaited client method threw: nothing catches it in the tool.
StoreFails(resp) ==
  /\ pc' = "done"
  /\ outcome' = Thrown(handleError(resp.error, ErrorContext(LastCall)))
  /\ response' = CallToolCatch(handleError(resp.error, ErrorContext(LastCall)))
  /\ replies' = Append(replies, resp)
  /\ UNCHANGED <<tool, args, client, locals, calls>>
  /\ UNCHANGED startupVars

\* The tool returns its text.
Returns(resp, parts) ==
  /\ pc' = "done"
  /\ outcome' = Returned(parts)
  /\ response' = handleIncidentTool(parts)
  /\ replies' = Append(replies, resp)
  /\ UNCHANGED <<tool, args, client, locals, calls>>
  /\ UNCHANGED startupVars

incidentQuery(a) ==
  /\ Start("incident_query", a)
  /\ IF ~HasClient(InstanceName(a)) THEN NotConfigured(InstanceName(a))
     ELSE /\ client' = InstanceName(a)
          /\ LET r == IncidentQuerySchema(a)
             IN  IF r.issues # <<>> THEN ValidationFails(r.issues)
                 ELSE FirstCall("query",
                                queryTable(INCIDENT_TABLE, Get(r.out, <<"f", "i", "l", "t", "e", "r">>),
                                           [limit |-> Get(r.out, <<"l", "i", "m", "i", "t">>),
                                            fields |-> Get(r.out, <<"f", "i", "e", "l", "d", "s">>)]),
                                r.out)

\* A query that reports a count even when nothing was found.
incidentQueryResumesMutant(resp) ==
  /\ pc = "query"
  /\ IF ~resp.ok THEN StoreFails(resp)
     ELSE Returns(resp, << Text(<<"F", "o", "u", "n", "d", " ">> \o NatToStr(Len(resp.result.items))
                            \o <<" ", "i", "n", "c", "i", "d", "e", "n", "t", "(", "s", ")", ":">> \o <<NEWLINE, NEWLINE>>),
                     Json(resp.result) >>)

incidentQueryResumes(resp) ==
  /\ pc = "query"
  /\ IF ~resp.ok THEN StoreFails(resp)
     ELSE IF Len(resp.result.items) = 0
       THEN Returns(resp, <<Text(<<"N", "o", " ", "i", "n", "c", "i", "d", "e", "n", "t", "s", " ", "f", "o", "u", "n", "d", " ", "m", "a", "t", "c", "h", "i", "n", "g", " ", "t", "h", "e", " ", "c", "r", "i", "t", "e", "r", "i", "a", ".">>)>>)
     ELSE Returns(resp, << Text(<<"F", "o", "u", "n", "d", " ">> \o NatToStr(Len(resp.result.items))
                            \o <<" ", "i", "n", "c", "i", "d", "e", "n", "t", "(", "s", ")", ":">> \o <<NEWLINE, NEWLINE>>),
                     Json(resp.result) >>)

incidentGet(a) ==
  /\ Start("incident_get", a)
  /\ IF ~HasClient(InstanceName(a)) THEN NotConfigured(InstanceName(a))
     ELSE /\ client' = InstanceName(a)
          /\ LET r == IncidentGetSchema(a)
                 identifier == Get(r.out, <<"i", "d", "e", "n", "t", "i", "f", "i", "e", "r">>)
                 fields == Get(r.out, <<"f", "i", "e", "l", "d", "s">>)
             IN  IF r.issues # <<>> THEN ValidationFails(r.issues)
                 ELSE IF IsSysId(identifier.s)
                   THEN FirstCall("get_record",
                                  getRecord(INCIDENT_TABLE, identifier,
                                            [limit |-> Undefined,
                                             fields |-> fields]),
                                  r.out)
                 ELSE FirstCall("get_lookup",
                                LookupByNumber(identifier, fields), r.out)

IncidentDetails(incident) ==
  << Text(<<"I", "n", "c", "i", "d", "e", "n", "t", " ", "D", "e", "t", "a", "i", "l", "s", ":">> \o <<NEWLINE, NEWLINE>>), Json(incident) >>

\* A get-by-key that reports a failed read as an incident not found.
incidentGetRecordResumesMutant(resp) ==
  /\ pc = "get_record"
  /\ IF ~resp.ok
       THEN Returns(resp, NotFoundText(Get(locals.validatedArgs, <<"i", "d", "e", "n", "t", "i", "f", "i", "e", "r">>)))
     ELSE Returns(resp, IncidentDetails(resp.result))

incidentGetRecordResumes(resp) ==
  /\ pc = "get_record"
  /\ IF ~resp.ok THEN StoreFails(resp)
     ELSE Returns(resp, IncidentDetails(resp.result))

incidentGetLookupResumes(resp) ==
  /\ pc = "get_lookup"
  /\ IF ~resp.ok THEN StoreFails(resp)
     ELSE IF Len(resp.result.items) = 0
       THEN Returns(resp, NotFoundText(Get(locals.validatedArgs, <<"i", "d", "e", "n", "t", "i", "f", "i", "e", "r">>)))
     ELSE Returns(resp, IncidentDetails(resp.result.items[1]))

\* The named properties incidentCreate takes out of validatedArgs.
CreateNamed ==
  << <<"s", "h", "o", "r", "t", "_", "d", "e", "s", "c", "r", "i", "p", "t", "i", "o", "n">>, <<"d", "e", "s", "c", "r", "i", "p", "t", "i", "o", "n">>, <<"p", "r", "i", "o", "r", "i", "t", "y">>, <<"u", "r", "g", "e", "n", "c", "y">>,
     <<"i", "m", "p", "a", "c", "t">>, <<"c", "a", "t", "e", "g", "o", "r", "y">>, <<"s", "u", "b", "c", "a", "t", "e", "g", "o", "r", "y">>, <<"a", "s", "s", "i", "g", "n", "m", "e", "n", "t", "_", "g", "r", "o", "u", "p">>,
     <<"a", "s", "s", "i", "g", "n", "e", "d", "_", "t", "o">>, <<"c", "a", "l", "l", "e", "r", "_", "i", "d">>, <<"i", "n", "s", "t", "a", "n", "c", "e">> >>

\* The optional properties copied when truthy, in the order of the ifs.
CreateOptional ==
  << <<"d", "e", "s", "c", "r", "i", "p", "t", "i", "o", "n">>, <<"p", "r", "i", "o", "r", "i", "t", "y">>, <<"u", "r", "g", "e", "n", "c", "y">>, <<"i", "m", "p", "a", "c", "t">>, <<"c", "a", "t", "e", "g", "o", "r", "y">>,
     <<"s", "u", "b", "c", "a", "t", "e", "g", "o", "r", "y">>, <<"a", "s", "s", "i", "g", "n", "m", "e", "n", "t", "_", "g", "r", "o", "u", "p">>, <<"a", "s", "s", "i", "g", "n", "e", "d", "_", "t", "o">>, <<"c", "a", "l", "l", "e", "r", "_", "i", "d">> >>

\* incidentData: { short_description, ...otherFields }, then each optional
\* property that is truthy.
IncidentData(validatedArgs) ==
  LET otherFields ==
        SelectSeq(validatedArgs.entries, LAMBDA e : ~InSeq(CreateNamed, e.k))
      optional ==
        [i \in 1..Len(CreateOptional) |->
           Entry(CreateOptional[i], Get(validatedArgs, CreateOptional[i]))]
  IN  Obj(<< Entry(<<"s", "h", "o", "r", "t", "_", "d", "e", "s", "c", "r", "i", "p", "t", "i", "o", "n">>,
                   Get(validatedArgs, <<"s", "h", "o", "r", "t", "_", "d", "e", "s", "c", "r", "i", "p", "t", "i", "o", "n">>)) >>
          \o otherFields
          \o SelectSeq(optional, LAMBDA e : Truthy(e.v)))

incidentCreate(a) ==
  /\ Start("incident_create", a)
  /\ IF ~HasClient(InstanceName(a)) THEN NotConfigured(InstanceName(a))
     ELSE /\ client' = InstanceName(a)
          /\ LET r == IncidentCreateSchema(a)
             IN  IF r.issues # <<>> THEN ValidationFails(r.issues)
                 ELSE FirstCall("create",
                                createRecord(INCIDENT_TABLE, IncidentData(r.out)),
                                r.out)

\* A success text that names neither the number nor the sys_id.
incidentCreateResumesMutant(resp) ==
  /\ pc = "create"
  /\ IF ~resp.ok THEN StoreFails(resp)
     ELSE Returns(resp, << Text(<<CHECKMARK>> \o <<" ", "I", "n", "c", "i", "d", "e", "n", "t", " ", "c", "r", "e", "a", "t", "e", "d", " ", "s", "u", "c", "c", "e", "s", "s", "f", "u", "l", "l", "y", "!">>
                            \o <<NEWLINE, NEWLINE>> \o <<"D", "e", "t", "a", "i", "l", "s", ":">> \o <<NEWLINE>>),
                     Json(resp.result) >>)

incidentCreateResumes(resp) ==
  /\ pc = "create"
  /\ IF ~resp.ok THEN StoreFails(resp)
     ELSE Returns(resp, << Text(<<CHECKMARK>> \o <<" ", "I", "n", "c", "i", "d", "e", "n", "t", " ", "c", "r", "e", "a", "t", "e", "d", " ", "s", "u", "c", "c", "e", "s", "s", "f", "u", "l", "l", "y", "!">>
                            \o <<NEWLINE, NEWLINE>> \o <<"I", "n", "c", "i", "d", "e", "n", "t", " ", "N", "u", "m", "b", "e", "r", ":", " ">>
                            \o StringOf(Get(resp.result, <<"n", "u", "m", "b", "e", "r">>))
                            \o <<NEWLINE>> \o <<"S", "y", "s", " ", "I", "D", ":", " ">>
                            \o StringOf(Get(resp.result, <<"s", "y", "s", "_", "i", "d">>))
                            \o <<NEWLINE, NEWLINE>> \o <<"D", "e", "t", "a", "i", "l", "s", ":">> \o <<NEWLINE>>),
                     Json(resp.result) >>)

\* A destructuring that takes out the identifier only.
UpdateDataMutant(validatedArgs) ==
  Obj(SelectSeq(validatedArgs.entries, LAMBDA e : e.k # <<"i", "d", "e", "n", "t", "i", "f", "i", "e", "r">>))

\* const { identifier, instance, ...updateData } = validatedArgs
UpdateData(validatedArgs) ==
  Obj(SelectSeq(validatedArgs.entries,
                LAMBDA e : e.k # <<"i", "d", "e", "n", "t", "i", "f", "i", "e", "r">> /\ e.k # <<"i", "n", "s", "t", "a", "n", "c", "e">>))

incidentUpdate(a) ==
  /\ Start("incident_update", a)
  /\ IF ~HasClient(InstanceName(a)) THEN NotConfigured(InstanceName(a))
     ELSE /\ client' = InstanceName(a)
          /\ LET r == IncidentUpdateSchema(a)
                 identifier == Get(r.out, <<"i", "d", "e", "n", "t", "i", "f", "i", "e", "r">>)
             IN  IF r.issues # <<>> THEN ValidationFails(r.issues)
                 ELSE IF IsSysId(identifier.s)
                   THEN /\ pc' = "update"
                        /\ calls' = << [updateRecord(INCIDENT_TABLE, identifier,
                                                     UpdateData(r.out))
                                          EXCEPT !.client = client'] >>
                        /\ locals' = [NoLocals EXCEPT !.validatedArgs = r.out,
                                                      !.sysId = identifier]
                        /\ outcome' = NoOutcome
                        /\ response' = NoResponse
                 ELSE FirstCall("update_lookup",
                                LookupByNumber(identifier, SysIdAndNumber), r.out)

incidentUpdateLookupResumes(resp) ==
  /\ pc = "update_lookup"
  /\ IF ~resp.ok THEN StoreFails(resp)
     ELSE IF Len(resp.result.items) = 0
       THEN Returns(resp, NotFoundText(Get(locals.validatedArgs, <<"i", "d", "e", "n", "t", "i", "f", "i", "e", "r">>)))
     ELSE Await(resp, "update",
                   updateRecord(INCIDENT_TABLE,
                                Get(resp.result.items[1], <<"s", "y", "s", "_", "i", "d">>),
                                UpdateData(locals.validatedArgs)),
                   [locals EXCEPT !.sysId = Get(resp.result.items[1], <<"s", "y", "s", "_", "i", "d">>)])

incidentUpdateResumes(resp) ==
  /\ pc = "update"
  /\ IF ~resp.ok THEN StoreFails(resp)
     ELSE Returns(resp, << Text(<<CHECKMARK>> \o <<" ", "I", "n", "c", "i", "d", "e", "n", "t", " ", "u", "p", "d", "a", "t", "e", "d", " ", "s", "u", "c", "c", "e", "s", "s", "f", "u", "l", "l", "y", "!">>
                            \o <<NEWLINE, NEWLINE>> \o <<"I", "n", "c", "i", "d", "e", "n", "t", " ", "N", "u", "m", "b", "e", "r", ":", " ">>
                            \o StringOf(Get(resp.result, <<"n", "u", "m", "b", "e", "r">>))
                            \o <<NEWLINE, NEWLINE>> \o <<"U", "p", "d", "a", "t", "e", "d", " ", "D", "e", "t", "a", "i", "l", "s", ":">>
                            \o <<NEWLINE>>),
                     Json(resp.result) >>)

incidentDelete(a) ==
  /\ Start("incident_delete", a)
  /\ IF ~HasClient(InstanceName(a)) THEN NotConfigured(InstanceName(a))
     ELSE /\ client' = InstanceName(a)
          /\ LET r == IncidentDeleteSchema(a)
                 identifier == Get(r.out, <<"i", "d", "e", "n", "t", "i", "f", "i", "e", "r">>)
             IN  IF r.issues # <<>> THEN ValidationFails(r.issues)
                 ELSE IF IsSysId(identifier.s)
                   THEN FirstCall("delete_get",
                                  getRecord(INCIDENT_TABLE, identifier,
                                            [limit |-> Undefined,
                                             fields |-> SysIdAndNumber]),
                                  r.out)
                 ELSE FirstCall("delete_lookup",
                                LookupByNumber(identifier, SysIdAndNumber), r.out)

\* A delete that addresses the record by its number.
DeleteResolvedMutant(resp, incident) ==
  Await(resp, "delete",
           deleteRecord(INCIDENT_TABLE, Get(incident, <<"n", "u", "m", "b", "e", "r">>)),
           [locals EXCEPT !.sysId = Get(incident, <<"n", "u", "m", "b", "e", "r">>),
                          !.incidentNumber = Get(incident, <<"n", "u", "m", "b", "e", "r">>)])

\* A delete whose sysId is shared between invocations: it takes the one
\* another invocation in flight has resolved.
DeleteResolvedSharedMutant(resp, incident) ==
  Await(resp, "delete",
           deleteRecord(INCIDENT_TABLE,
                        IF parked.locals.sysId # Undefined
                          THEN parked.locals.sysId
                          ELSE Get(incident, <<"s", "y", "s", "_", "i", "d">>)),
           [locals EXCEPT !.sysId = Get(incident, <<"s", "y", "s", "_", "i", "d">>),
                          !.incidentNumber = Get(incident, <<"n", "u", "m", "b", "e", "r">>)])

\* sysId and incidentNumber are known: await client.deleteRecord.
DeleteResolved(resp, incident) ==
  Await(resp, "delete",
           deleteRecord(INCIDENT_TABLE, Get(incident, <<"s", "y", "s", "_", "i", "d">>)),
           [locals EXCEPT !.sysId = Get(incident, <<"s", "y", "s", "_", "i", "d">>),
                          !.incidentNumber = Get(incident, <<"n", "u", "m", "b", "e", "r">>)])

incidentDeleteGetResumes(resp) ==
  /\ pc = "delete_get"
  /\ IF ~resp.ok THEN StoreFails(resp) ELSE DeleteResolved(resp, resp.result)

incidentDeleteLookupResumes(resp) ==
  /\ pc = "delete_lookup"
  /\ IF ~resp.ok THEN StoreFails(resp)
     ELSE IF Len(resp.result.items) = 0
       THEN Returns(resp, NotFoundText(Get(locals.validatedArgs, <<"i", "d", "e", "n", "t", "i", "f", "i", "e", "r">>)))
     ELSE DeleteResolved(resp, resp.result.items[1])

incidentDeleteResumes(resp) ==
  /\ pc = "delete"
  /\ IF ~resp.ok THEN StoreFails(resp)
     ELSE Returns(resp, <<Text(<<CHECKMARK>> \o <<" ", "I", "n", "c", "i", "d", "e", "n", "t", " ">>
                           \o StringOf(locals.incidentNumber)
                           \o <<" ", "d", "e", "l", "e", "t", "e", "d", " ", "s", "u", "c", "c", "e", "s", "s", "f", "u", "l", "l", "y", ".">>)>>)

\* The tool names the switch of the handler knows.
KnownTools ==
  { "servicenow_test_connection", "servicenow_query", "incident_query",
    "incident_get", "incident_create", "incident_update", "incident_delete" }

\* Tool names outside the switch, each with its text.
UnknownTools ==
  { [name |-> "incident_purge", text |-> <<"i", "n", "c", "i", "d", "e", "n", "t", "_", "p", "u", "r", "g", "e">>],
    [name |-> "Incident_Delete", text |-> <<"I", "n", "c", "i", "d", "e", "n", "t", "_", "D", "e", "l", "e", "t", "e">>],
    [name |-> "", text |-> <<>>] }

\* A handler whose default case lets the error leave without a reply.
UnknownToolMutant(t, a) ==
  /\ Start(t.name, a)
  /\ pc' = "done"
  /\ client' = Undefined
  /\ outcome' = Thrown(<<"U", "n", "k", "n", "o", "w", "n", " ", "t", "o", "o", "l", ":", " ">> \o t.text)
  /\ response' = NoResponse
  /\ calls' = <<>>
  /\ locals' = NoLocals

\* default: throw new Error(`Unknown tool: ${name}`), caught by the handler.
UnknownTool(t, a) ==
  /\ Start(t.name, a)
  /\ pc' = "done"
  /\ client' = Undefined
  /\ outcome' = Thrown(<<"U", "n", "k", "n", "o", "w", "n", " ", "t", "o", "o", "l", ":", " ">> \o t.text)
  /\ response' = CallToolCatch(<<"U", "n", "k", "n", "o", "w", "n", " ", "t", "o", "o", "l", ":", " ">> \o t.text)
  /\ calls' = <<>>
  /\ locals' = NoLocals

(***************************************************************************)
(* Specification.                                                          *)
(***************************************************************************)
Init ==
  /\ pc = "idle"
  /\ tool = "none"
  /\ args = Undefined
  /\ locals = NoLocals
  /\ calls = <<>>
  /\ replies = <<>>
  /\ client = Undefined
  /\ outcome = NoOutcome
  /\ response = NoResponse
  /\ env = ServerEnvironment
  /\ config = loadConfig(env)
  /\ selected = NoneSelected
  /\ parked = NotStarted
  /\ incidents = StoreRecords

Query ==
  /\ \E a \in QueryInputs : incidentQuery(a)
  /\ UNCHANGED concurrentVars

QueryResumes ==
  /\ pc = "query"
  /\ \E resp \in Responses(LastCall) : incidentQueryResumes(resp)
  /\ UNCHANGED concurrentVars

GetIncident ==
  /\ \E a \in GetInputs : incidentGet(a)
  /\ UNCHANGED concurrentVars

GetRecordResumes ==
  /\ pc = "get_record"
  /\ \E resp \in Responses(LastCall) : incidentGetRecordResumes(resp)
  /\ UNCHANGED concurrentVars

GetLookupResumes ==
  /\ pc = "get_lookup"
  /\ \E resp \in Responses(LastCall) : incidentGetLookupResumes(resp)
  /\ UNCHANGED concurrentVars

Create ==
  /\ \E a \in CreateInputs : incidentCreate(a)
  /\ UNCHANGED concurrentVars

CreateResumes ==
  /\ pc = "create"
  /\ \E resp \in Responses(LastCall) : incidentCreateResumes(resp)
  /\ UNCHANGED concurrentVars

Update ==
  /\ \E a \in UpdateInputs : incidentUpdate(a)
  /\ UNCHANGED concurrentVars

UpdateLookupResumes ==
  /\ pc = "update_lookup"
  /\ \E resp \in Responses(LastCall) : incidentUpdateLookupResumes(resp)
  /\ UNCHANGED concurrentVars

UpdateResumes ==
  /\ pc = "update"
  /\ \E resp \in Responses(LastCall) : incidentUpdateResumes(resp)
  /\ UNCHANGED concurrentVars

Delete ==
  /\ \E a \in DeleteInputs : incidentDelete(a)
  /\ UNCHANGED concurrentVars

DeleteGetResumes ==
  /\ pc = "delete_get"
  /\ \E resp \in Responses(LastCall) : incidentDeleteGetResumes(resp)
  /\ UNCHANGED concurrentVars

DeleteLookupResumes ==
  /\ pc = "delete_lookup"
  /\ \E resp \in Responses(LastCall) : incidentDeleteLookupResumes(resp)
  /\ UNCHANGED concurrentVars

DeleteResumes ==
  /\ pc = "delete"
  /\ \E resp \in Responses(LastCall) : incidentDeleteResumes(resp)
  /\ UNCHANGED concurrentVars

Unknown ==
  \E t \in UnknownTools :
    \E a \in {Undefined,
              Payload(<< Entry(<<"i", "d", "e", "n", "t", "i", "f", "i", "e", "r">>, Str(<<"I", "N", "C", "0", "0", "1", "0", "0", "0", "1">>)),
                         Entry(<<"c", "o", "n", "f", "i", "r", "m">>, Bool(TRUE)) >>)} :
      UnknownTool(t, a) /\ UNCHANGED concurrentVars

Next ==
  \/ Query
  \/ QueryResumes
  \/ GetIncident
  \/ GetRecordResumes
  \/ GetLookupResumes
  \/ Create
  \/ CreateResumes
  \/ Update
  \/ UpdateLookupResumes
  \/ UpdateResumes
  \/ Delete
  \/ DeleteGetResumes
  \/ DeleteLookupResumes
  \/ DeleteResumes
  \/ Unknown

Spec == Init /\ [][Next]_vars

\* The store answers the call an invocation awaits: axios resolves or
\* rejects every request, at the latest at its timeout.
StoreAnswers ==
  \/ QueryResumes
  \/ GetRecordResumes
  \/ GetLookupResumes
  \/ CreateResumes
  \/ UpdateLookupResumes
  \/ UpdateResumes
  \/ DeleteGetResumes
  \/ DeleteLookupResumes
  \/ DeleteResumes

\* The server with a store that answers every call.
SpecStoreAnswers == Spec /\ WF_vars(StoreAnswers)


(***************************************************************************)
(* The incident tools module without schemas (tools/incident-tools.ts):    *)
(* its incidentDelete takes the payload as it comes.                       *)
(***************************************************************************)
ConfirmationRequired ==
  <<Text(<<"E", "r", "r", "o", "r", ":", " ", "D", "e", "l", "e", "t", "e", " ", "o", "p", "e", "r", "a", "t", "i", "o", "n", " ", "r", "e", "q", "u", "i", "r", "e", "s", " ", "c", "o", "n", "f", "i", "r", "m", "a", "t", "i", "o", "n", ".", " ", "S", "e", "t", " ", "c", "o", "n", "f", "i", "r", "m", "=", "t", "r", "u", "e", " ", "t", "o", " ", "p", "r", "o", "c", "e", "e", "d", ".">>)>>

\* Payloads whose identifier is a string, with every kind of confirm.
UnvalidatedDeleteInputs ==
  {a \in DeleteInputs : a.t = "object" /\ Get(a, <<"i", "d", "e", "n", "t", "i", "f", "i", "e", "r">>).t = "string"}

\* const { identifier, confirm } = args; if (!confirm) return 'Error: ...';
\* then the identifier is resolved and deleted as in the module with schemas.
incidentDeleteUnvalidated(a) ==
  /\ Start("incident_delete", a)
  /\ IF ~HasClient(InstanceName(a)) THEN NotConfigured(InstanceName(a))
     ELSE /\ client' = InstanceName(a)
          /\ LET identifier == Get(a, <<"i", "d", "e", "n", "t", "i", "f", "i", "e", "r">>)
                 confirm == Get(a, <<"c", "o", "n", "f", "i", "r", "m">>)
             IN  IF ~Truthy(confirm)
                   THEN /\ pc' = "done"
                        /\ outcome' = Returned(ConfirmationRequired)
                        /\ response' = handleIncidentTool(ConfirmationRequired)
                        /\ calls' = <<>>
                        /\ locals' = NoLocals
                 ELSE IF IsSysId(identifier.s)
                   THEN FirstCall("delete_get",
                                  getRecord(INCIDENT_TABLE, identifier,
                                            [limit |-> Undefined,
                                             fields |-> SysIdAndNumber]),
                                  a)
                 ELSE FirstCall("delete_lookup",
                                LookupByNumber(identifier, SysIdAndNumber), a)

DeleteUnvalidated ==
  /\ \E a \in UnvalidatedDeleteInputs : incidentDeleteUnvalidated(a)
  /\ UNCHANGED concurrentVars

NextUnvalidated ==
  \/ DeleteUnvalidated
  \/ DeleteGetResumes
  \/ DeleteLookupResumes
  \/ DeleteResumes

\* The server with the tools module without schemas, deleting incidents.
SpecUnvalidated == Init /\ [][NextUnvalidated]_vars

(***************************************************************************)
(* The start of the server: the constructor loads the configuration from   *)
(* the environment, then getClient selects clients.                        *)
(***************************************************************************)
\* this.config = loadConfig(): a thrown Error leaves the process without a
\* server.
Construct ==
  /\ config = NotLoaded
  /\ config' = loadConfig(env)
  /\ UNCHANGED <<env, selected, invocationVars, concurrentVars>>

\* getClient((args as any)?.instance) on the constructed server.
getClient(a) ==
  /\ config.value.t = "object"
  /\ selected' = [asked |-> TRUE, instance |-> InstanceOf(a),
                  found |-> HasClient(InstanceName(a))]
  /\ UNCHANGED <<env, config, invocationVars, concurrentVars>>

GetClient ==
  \E a \in {Undefined} \cup {Payload(<< Entry(<<"i", "n", "s", "t", "a", "n", "c", "e">>, i) >>) : i \in InstanceValues} :
    getClient(a)

InitStartup ==
  /\ env \in Environments
  /\ config = NotLoaded
  /\ selected = NoneSelected
  /\ pc = "idle"
  /\ tool = "none"
  /\ args = Undefined
  /\ locals = NoLocals
  /\ calls = <<>>
  /\ replies = <<>>
  /\ client = Undefined
  /\ outcome = NoOutcome
  /\ response = NoResponse
  /\ parked = NotStarted
  /\ incidents = StoreRecords

NextStartup ==
  \/ Construct
  \/ GetClient

SpecStartup == InitStartup /\ [][NextStartup]_vars

(***************************************************************************)
(* Two invocations in flight on one instance. The handler is async: while  *)
(* one invocation awaits the store, the other runs. The instance holds     *)
(* incidents, and answers each request from what it holds when it serves   *)
(* the request.                                                            *)
(***************************************************************************)
SharedUpdateInputs ==
  { Payload(<< Entry(<<"i", "d", "e", "n", "t", "i", "f", "i", "e", "r">>, Str(<<"I", "N", "C", "0", "0", "1", "0", "0", "0", "1">>)),
               Entry(<<"s", "h", "o", "r", "t", "_", "d", "e", "s", "c", "r", "i", "p", "t", "i", "o", "n">>, Str(<<"e", "d", "i", "t", "e", "d">>)) >>),
    Payload(<< Entry(<<"i", "d", "e", "n", "t", "i", "f", "i", "e", "r">>, Str(<<"I", "N", "C", "0", "0", "1", "0", "0", "0", "2">>)),
               Entry(<<"s", "t", "a", "t", "e">>, Str(<<"R", "e", "s", "o", "l", "v", "e", "d">>)) >>) }

SharedDeleteInputs ==
  { Payload(<< Entry(<<"i", "d", "e", "n", "t", "i", "f", "i", "e", "r">>, Str(n)), Entry(<<"c", "o", "n", "f", "i", "r", "m">>, Bool(TRUE)) >>) :
      n \in {<<"I", "N", "C", "0", "0", "1", "0", "0", "0", "1">>, <<"I", "N", "C", "0", "0", "1", "0", "0", "0", "2">>} }

\* The instance has no record of the key.
NoRecordFound ==
  Failure(AxiosError(TRUE, 404,
                     ErrorPayload(<<"N", "o", " ", "R", "e", "c", "o", "r", "d", " ", "f", "o", "u", "n", "d">>, Str(<<"R", "e", "c", "o", "r", "d", " ", "d", "o", "e", "s", "n", "'", "t", " ", "e", "x", "i", "s", "t">>)),
                     <<"R", "e", "q", "u", "e", "s", "t", " ", "f", "a", "i", "l", "e", "d", " ", "w", "i", "t", "h", " ", "s", "t", "a", "t", "u", "s", " ", "c", "o", "d", "e", " ", "4", "0", "4">>))

\* The request did not reach the instance.
NoAnswer ==
  Failure(AxiosError(FALSE, 0, Undefined, <<"t", "i", "m", "e", "o", "u", "t", " ", "o", "f", " ", "3", "0", "0", "0", "0", "m", "s", " ", "e", "x", "c", "e", "e", "d", "e", "d">>))

\* The record with the properties of data written over it.
Merge(record, data) ==
  Obj([i \in 1..Len(record.entries) |->
         IF HasKey(data, record.entries[i].k)
           THEN Entry(record.entries[i].k, Get(data, record.entries[i].k))
           ELSE record.entries[i]]
      \o SelectSeq(data.entries, LAMBDA e : ~HasKey(record, e.k)))

Answer(reply, held) == [reply |-> reply, incidents |-> held]

\* What the instance may answer to a request, and what it holds afterwards.
Answers(call) ==
  LET held == {r \in incidents : Get(r, <<"s", "y", "s", "_", "i", "d">>) = call.sysId}
      matching == {r \in incidents :
                     Get(r, <<"n", "u", "m", "b", "e", "r">>) = Get(call.filter, <<"n", "u", "m", "b", "e", "r">>)}
  IN  {Answer(NoAnswer, incidents)}
        \cup
      CASE call.op = "queryTable" ->
             IF matching = {} THEN {Answer(Success(Arr(<<>>)), incidents)}
             ELSE {Answer(Success(Arr(<<Incident(Get(r, <<"s", "y", "s", "_", "i", "d">>).s,
                                                 Get(r, <<"n", "u", "m", "b", "e", "r">>).s)>>)),
                          incidents) : r \in matching}
        [] call.op = "updateRecord" ->
             IF held = {} THEN {Answer(NoRecordFound, incidents)}
             ELSE {Answer(Success(Merge(r, call.data)),
                          (incidents \ {r}) \cup {Merge(r, call.data)}) : r \in held}
        [] call.op = "deleteRecord" ->
             IF held = {} THEN {Answer(NoRecordFound, incidents)}
             ELSE {Answer(Success(Undefined), incidents \ held)}

\* The invocation that is running, as a record.
Running ==
  [ pc |-> pc, tool |-> tool, args |-> args, client |-> client,
    locals |-> locals, calls |-> calls, replies |-> replies,
    outcome |-> outcome, response |-> response ]

\* The running invocation awaits or has ended; the event loop runs the other.
Switch ==
  /\ pc # "idle"
  /\ pc' = parked.pc
  /\ tool' = parked.tool
  /\ args' = parked.args
  /\ client' = parked.client
  /\ locals' = parked.locals
  /\ calls' = parked.calls
  /\ replies' = parked.replies
  /\ outcome' = parked.outcome
  /\ response' = parked.response
  /\ parked' = Running
  /\ UNCHANGED <<startupVars, incidents>>

SharedUpdate ==
  /\ \E a \in SharedUpdateInputs : incidentUpdate(a)
  /\ UNCHANGED concurrentVars

SharedDelete ==
  /\ \E a \in SharedDeleteInputs : incidentDelete(a)
  /\ UNCHANGED concurrentVars

SharedUpdateLookupResumes ==
  /\ pc = "update_lookup"
  /\ \E answer \in Answers(LastCall) :
       /\ incidentUpdateLookupResumes(answer.reply)
       /\ incidents' = answer.incidents
  /\ UNCHANGED parked

SharedUpdateResumes ==
  /\ pc = "update"
  /\ \E answer \in Answers(LastCall) :
       /\ incidentUpdateResumes(answer.reply)
       /\ incidents' = answer.incidents
  /\ UNCHANGED parked

SharedDeleteLookupResumes ==
  /\ pc = "delete_lookup"
  /\ \E answer \in Answers(LastCall) :
       /\ incidentDeleteLookupResumes(answer.reply)
       /\ incidents' = answer.incidents
  /\ UNCHANGED parked

SharedDeleteResumes ==
  /\ pc = "delete"
  /\ \E answer \in Answers(LastCall) :
       /\ incidentDeleteResumes(answer.reply)
       /\ incidents' = answer.incidents
  /\ UNCHANGED parked

NextShared ==
  \/ SharedUpdate
  \/ SharedDelete
  \/ SharedUpdateLookupResumes
  \/ SharedUpdateResumes
  \/ SharedDeleteLookupResumes
  \/ SharedDeleteResumes
  \/ Switch

\* Two tool calls served by one server on one instance.
SpecShared == Init /\ [][NextShared]_vars
(***************************************************************************)
(* Vocabulary of the properties.                                           *)
(***************************************************************************)
\* The property k of the payload, undefined when the payload is no object.
Arg(k) == IF args.t = "object" THEN Get(args, k) ELSE Undefined

Contains(s, p) ==
  \E i \in 1..(Len(s) - Len(p) + 1) : SubSeq(s, i, i + Len(p) - 1) = p

RECURSIVE Split(_, _)
\* The text s cut at every occurrence of the character c.
Split(s, c) ==
  IF \E i \in 1..Len(s) : s[i] = c
    THEN LET i == CHOOSE j \in 1..Len(s) :
                    s[j] = c /\ \A k \in 1..(j - 1) : s[k] # c
         IN  <<SubSeq(s, 1, i - 1)>> \o Split(SubSeq(s, i + 1, Len(s)), c)
    ELSE <<s>>

\* The tool function was entered: getClient found a client for the call.
Entered == tool # "none" /\ client # Undefined

\* The invocation ended in a validation failure.
ValidationFailed ==
  /\ pc = "done"
  /\ outcome.kind = "thrown"
  /\ StartsWith(outcome.text[1].s, <<"V", "a", "l", "i", "d", "a", "t", "i", "o", "n", " ", "E", "r", "r", "o", "r", ":">>)

StoreOps == {"queryTable", "getRecord", "createRecord", "updateRecord", "deleteRecord"}

CallsOf(op) == {i \in 1..Len(calls) : calls[i].op = op}

\* The documented constraint of each kind of property, stated on its own.
ValidValue(kind, v) ==
  CASE kind \in {"identifier", "short_description"} ->
         v.t = "string" /\ Len(v.s) >= 1
    [] kind = "string" -> v.t \in {"undefined", "string"}
    [] kind = "state" ->
         v.t = "undefined" \/ (v.t = "string" /\ v.s \in Range(stateValues))
    [] kind = "priority" ->
         v.t = "undefined" \/ (v.t = "string" /\ v.s \in Range(priorityValues))
    [] kind = "urgency" ->
         v.t = "undefined" \/ (v.t = "string" /\ v.s \in Range(urgencyValues))
    [] kind = "filter" ->
         \/ v.t = "undefined"
         \/ /\ v.t = "object"
            /\ \A i \in 1..Len(v.entries) :
                 LET w == v.entries[i].v
                 IN  \/ IsScalar(w)
                     \/ /\ w.t = "object"
                        /\ Get(w, <<"o", "p", "e", "r", "a", "t", "o", "r">>).t = "string"
                        /\ Get(w, <<"o", "p", "e", "r", "a", "t", "o", "r">>).s \in Range(QueryOperators)
                        /\ IsScalar(Get(w, <<"v", "a", "l", "u", "e">>))
    [] kind = "limit" ->
         \/ v.t = "undefined"
         \/ v.t = "number" /\ v.d = 0 /\ v.n >= 1 /\ v.n <= 1000
    [] kind = "fields" ->
         \/ v.t = "undefined"
         \/ v.t = "array" /\ \A i \in 1..Len(v.items) : v.items[i].t = "string"
    [] kind = "confirm" -> v = Bool(TRUE)
    [] kind = "instance" ->
         v.t = "undefined" \/ (v.t = "string" /\ v.s \in Range(InstanceNames))

ShapeOf(name) ==
  CASE name = "incident_query" -> IncidentQueryShape
    [] name = "incident_get" -> IncidentGetShape
    [] name = "incident_create" -> IncidentCreateShape
    [] name = "incident_update" -> IncidentUpdateShape
    [] name = "incident_delete" -> IncidentDeleteShape

\* The properties of the payload that violate the schema of the tool.
ViolatedFields ==
  IF args.t # "object" THEN {}
  ELSE {ShapeOf(tool)[i].key : i \in
          {j \in 1..Len(ShapeOf(tool)) :
             ~ValidValue(ShapeOf(tool)[j].kind, Get(args, ShapeOf(tool)[j].key))}}

\* The payload fails the schema of the tool.
InvalidPayload == args.t # "object" \/ ViolatedFields # {}

IsNonEmptyString(v) == v.t = "string" /\ Len(v.s) >= 1

(***************************************************************************)
(* C1. incident_delete with confirm absent or false ends in a validation   *)
(* failure with no store call issued; with confirm true, a non-empty       *)
(* identifier and a valid instance selector its first step is the          *)
(* resolution of the identifier (getRecord by key or the lookup query).    *)
(***************************************************************************)
C1_DeleteRequiresConfirm ==
  tool = "incident_delete" =>
    /\ (Arg(<<"c", "o", "n", "f", "i", "r", "m">>) \in {Undefined, Bool(FALSE)}) =>
         /\ pc = "done"
         /\ outcome.kind = "thrown"
         /\ calls = <<>>
         /\ replies = <<>>
         /\ Entered => ValidationFailed
    /\ ( /\ Entered /\ Arg(<<"c", "o", "n", "f", "i", "r", "m">>) = Bool(TRUE)
         /\ IsNonEmptyString(Arg(<<"i", "d", "e", "n", "t", "i", "f", "i", "e", "r">>))
         /\ ValidValue("instance", Arg(<<"i", "n", "s", "t", "a", "n", "c", "e">>)) ) =>
         /\ Len(calls) >= 1
         /\ \/ /\ calls[1].op = "getRecord"
               /\ calls[1].sysId = Arg(<<"i", "d", "e", "n", "t", "i", "f", "i", "e", "r">>)
            \/ /\ calls[1].op = "queryTable"
               /\ calls[1].filter = Obj(<< Entry(<<"n", "u", "m", "b", "e", "r">>, Arg(<<"i", "d", "e", "n", "t", "i", "f", "i", "e", "r">>)) >>)

C1_Witness ==
  /\ tool = "incident_delete"
  /\ Entered
  /\ Arg(<<"c", "o", "n", "f", "i", "r", "m">>) = Bool(FALSE)
  /\ IsNonEmptyString(Arg(<<"i", "d", "e", "n", "t", "i", "f", "i", "e", "r">>))
  /\ ValidationFailed
  /\ calls = <<>>

(***************************************************************************)
(* C2. For incident_get and incident_update with a payload that passes     *)
(* validation: a 32-character hexadecimal identifier (either case) causes  *)
(* no queryTable call; any other identifier causes exactly one, the first  *)
(* call, with filter {number: identifier} and limit 1.                     *)
(***************************************************************************)
C2_LookupOnlyForNumbers ==
  (tool \in {"incident_get", "incident_update"} /\ Entered /\ ~InvalidPayload) =>
    /\ Arg(<<"i", "d", "e", "n", "t", "i", "f", "i", "e", "r">>).s \in HexIdentifiers => CallsOf("queryTable") = {}
    /\ Arg(<<"i", "d", "e", "n", "t", "i", "f", "i", "e", "r">>).s \in OtherIdentifiers =>
         /\ CallsOf("queryTable") = {1}
         /\ calls[1].filter = Obj(<< Entry(<<"n", "u", "m", "b", "e", "r">>, Arg(<<"i", "d", "e", "n", "t", "i", "f", "i", "e", "r">>)) >>)
         /\ calls[1].options.limit = Num(1)
         /\ calls[1].params.sysparm_limit = SetTo(Num(1))

C2_Witness ==
  /\ tool = "incident_get"
  /\ Entered
  /\ Arg(<<"i", "d", "e", "n", "t", "i", "f", "i", "e", "r">>) = Str(SysIdB)
  /\ pc = "done"
  /\ outcome.kind = "returned"
  /\ CallsOf("queryTable") = {}
  /\ CallsOf("getRecord") = {1}

(***************************************************************************)
(* C3. For each of the five incident tools, a payload that fails schema    *)
(* validation ends in a validation failure with zero store calls.          *)
(***************************************************************************)
C3_InvalidPayloadCallsNothing ==
  (Entered /\ InvalidPayload) =>
    (ValidationFailed /\ calls = <<>> /\ replies = <<>>)

C3_Witness ==
  /\ tool = "incident_create"
  /\ Entered
  /\ Arg(<<"s", "h", "o", "r", "t", "_", "d", "e", "s", "c", "r", "i", "p", "t", "i", "o", "n">>) = Str(<<>>)
  /\ ValidationFailed
  /\ calls = <<>>

(***************************************************************************)
(* C4. For get, update and delete by number, a lookup that returns zero    *)
(* records ends the invocation with the returned text                      *)
(* Incident "<identifier>" not found. and no updateRecord or deleteRecord  *)
(* call; a lookup of incident_get that returns a record ends with a text   *)
(* that includes the serialization of that record.                         *)
(***************************************************************************)
LookupAnswered ==
  /\ tool \in {"incident_get", "incident_update", "incident_delete"}
  /\ Len(replies) >= 1
  /\ calls[1].op = "queryTable"
  /\ replies[1].ok

C4_NotFoundIsReturned ==
  /\ (LookupAnswered /\ replies[1].result.items = <<>>) =>
       /\ pc = "done"
       /\ outcome =
            Returned(<<Text(<<"I", "n", "c", "i", "d", "e", "n", "t", " ">> \o <<DQUOTE>> \o Arg(<<"i", "d", "e", "n", "t", "i", "f", "i", "e", "r">>).s
                              \o <<DQUOTE>> \o <<" ", "n", "o", "t", " ", "f", "o", "u", "n", "d", ".">>)>>)
       /\ Len(calls) = 1
       /\ CallsOf("updateRecord") \cup CallsOf("deleteRecord") = {}
  /\ (LookupAnswered /\ tool = "incident_get" /\ replies[1].result.items # <<>>) =>
       /\ pc = "done"
       /\ outcome.kind = "returned"
       /\ \E i \in 1..Len(outcome.text) :
            outcome.text[i] = Json(replies[1].result.items[1])

C4_Witness ==
  /\ tool = "incident_update"
  /\ LookupAnswered
  /\ replies[1].result.items = <<>>
  /\ Arg(<<"i", "d", "e", "n", "t", "i", "f", "i", "e", "r">>) = Str(<<"I", "N", "C", "0", "0", "1", "0", "0", "0", "1">>)
  /\ outcome.kind = "returned"

(***************************************************************************)
(* C5. A store call that fails is the last store call of its invocation,   *)
(* and the invocation ends as a thrown failure that carries the store's    *)
(* error (its message, its HTTP status, or the missing response).          *)
(***************************************************************************)
CarriesStoreError(message, error) ==
  IF error.response /\ error.data.t = "object"
    THEN Contains(message, Get(Get(error.data, <<"e", "r", "r", "o", "r">>), <<"m", "e", "s", "s", "a", "g", "e">>).s)
  ELSE IF error.response
    THEN Contains(message, <<"H", "T", "T", "P", " ">> \o NatToStr(error.status))
  ELSE IF error.kind = "axios" /\ error.request
    THEN Contains(message, <<"N", "o", " ", "r", "e", "s", "p", "o", "n", "s", "e", " ", "r", "e", "c", "e", "i", "v", "e", "d">>)
  ELSE Contains(message, error.message)

C5_StoreFailureEndsInvocation ==
  /\ Len(replies) <= Len(calls)
  /\ \A i \in 1..Len(replies) :
       ~replies[i].ok =>
         /\ i = Len(calls)
         /\ i = Len(replies)
         /\ pc = "done"
         /\ outcome.kind = "thrown"
         /\ StartsWith(outcome.text[1].s, <<"S", "e", "r", "v", "i", "c", "e", "N", "o", "w", " ">>)
         /\ CarriesStoreError(outcome.text[1].s, replies[i].error)

C5_Witness ==
  /\ tool = "incident_delete"
  /\ Len(calls) = 2
  /\ Len(replies) = 2
  /\ replies[1].ok
  /\ ~replies[2].ok
  /\ outcome.kind = "thrown"

(***************************************************************************)
(* C6. In every createRecord and updateRecord request, a state, priority,  *)
(* urgency or impact the payload gave as a label is sent as the documented *)
(* code of that label, one given as a code is sent unchanged, and          *)
(* normalizing the value sent once more leaves it as it is.                *)
(***************************************************************************)
DocumentedStateCodes ==
  { << <<"N", "e", "w">>, <<"1">> >>, << <<"I", "n", " ", "P", "r", "o", "g", "r", "e", "s", "s">>, <<"2">> >>, << <<"O", "n", " ", "H", "o", "l", "d">>, <<"3">> >>,
    << <<"R", "e", "s", "o", "l", "v", "e", "d">>, <<"6">> >>, << <<"C", "l", "o", "s", "e", "d">>, <<"7">> >>, << <<"C", "a", "n", "c", "e", "l", "e", "d">>, <<"8">> >> }

DocumentedPriorityCodes ==
  { << <<"C", "r", "i", "t", "i", "c", "a", "l">>, <<"1">> >>, << <<"H", "i", "g", "h">>, <<"2">> >>, << <<"M", "o", "d", "e", "r", "a", "t", "e">>, <<"3">> >>,
    << <<"L", "o", "w">>, <<"4">> >>, << <<"P", "l", "a", "n", "n", "i", "n", "g">>, <<"5">> >> }

DocumentedUrgencyCodes ==
  { << <<"H", "i", "g", "h">>, <<"1">> >>, << <<"M", "e", "d", "i", "u", "m">>, <<"2">> >>, << <<"L", "o", "w">>, <<"3">> >> }

\* The documented code of a label; a code stands for itself.
DocumentedCode(table, s) ==
  IF \E p \in table : p[1] = s
    THEN (CHOOSE p \in table : p[1] = s)[2]
    ELSE s

\* The fields the schemas normalize, each with its table and its enum.
NormalizedFields ==
  { [key |-> <<"s", "t", "a", "t", "e">>, table |-> DocumentedStateCodes, kind |-> "state",
     tools |-> {"incident_update"}],
    [key |-> <<"p", "r", "i", "o", "r", "i", "t", "y">>, table |-> DocumentedPriorityCodes, kind |-> "priority",
     tools |-> {"incident_create", "incident_update"}],
    [key |-> <<"u", "r", "g", "e", "n", "c", "y">>, table |-> DocumentedUrgencyCodes, kind |-> "urgency",
     tools |-> {"incident_create", "incident_update"}],
    [key |-> <<"i", "m", "p", "a", "c", "t">>, table |-> DocumentedUrgencyCodes, kind |-> "urgency",
     tools |-> {"incident_create", "incident_update"}] }

C6_LabelsBecomeCodes ==
  \A i \in CallsOf("createRecord") \cup CallsOf("updateRecord") :
    \A f \in NormalizedFields :
      (tool \in f.tools /\ Arg(f.key).t = "string") =>
        /\ Get(calls[i].data, f.key) = Str(DocumentedCode(f.table, Arg(f.key).s))
        /\ FieldParse(f.kind, Get(calls[i].data, f.key), <<f.key>>)
             = Ok(Get(calls[i].data, f.key))

C6_Witness ==
  /\ tool = "incident_update"
  /\ Arg(<<"s", "t", "a", "t", "e">>) = Str(<<"R", "e", "s", "o", "l", "v", "e", "d">>)
  /\ CallsOf("updateRecord") # {}
  /\ \A i \in CallsOf("updateRecord") :
       Get(calls[i].data, <<"s", "t", "a", "t", "e">>) = Str(<<"6">>)

(***************************************************************************)
(* C7. For a validated filter of incident_query with n >= 1 entries, the   *)
(* encoded query sent has exactly n-1 carets.                              *)
(***************************************************************************)
C7_CaretsSeparateEntries ==
  \A i \in CallsOf("queryTable") :
    (tool = "incident_query" /\ calls[i].filter.t = "object"
       /\ Len(calls[i].filter.entries) >= 1) =>
      /\ calls[i].params.sysparm_query.set
      /\ Count(calls[i].params.sysparm_query.v.s, "^")
           = Len(calls[i].filter.entries) - 1

(***************************************************************************)
(* C8. A queryTable request whose filter is absent or has no entries       *)
(* carries no sysparm_query parameter, and no request carries an empty     *)
(* sysparm_query.                                                          *)
(***************************************************************************)
C8_EmptyFilterSendsNoQuery ==
  \A i \in CallsOf("queryTable") :
    /\ (calls[i].filter = Undefined \/ calls[i].filter = Obj(<<>>)) =>
         ~calls[i].params.sysparm_query.set
    /\ calls[i].params.sysparm_query # SetTo(Str(<<>>))

(***************************************************************************)
(* C9. A validation failure message is the header line followed by one     *)
(* line per violation: every violated field of the payload has its line,   *)
(* every line starts with the dotted path of a violated field and ': ',    *)
(* and a violation with an empty path (the payload itself) has no prefix.  *)
(***************************************************************************)
MessageLines == Split(outcome.text[1].s, NEWLINE)

\* The line reports a violation in field f: at f itself or below it.
LineOfField(line, f) ==
  \/ StartsWith(line, <<" ", " ", "-", " ">> \o f \o <<":", " ">>)
  \/ /\ StartsWith(line, <<" ", " ", "-", " ">> \o f \o <<".">>)
     /\ Contains(line, <<":", " ">>)

C9_AllViolationsListed ==
  (Entered /\ ValidationFailed) =>
    /\ MessageLines[1] = <<"V", "a", "l", "i", "d", "a", "t", "i", "o", "n", " ", "E", "r", "r", "o", "r", ":">>
    /\ Len(MessageLines) >= 2
    /\ Len(MessageLines) - 1 >= Cardinality(ViolatedFields)
    /\ \A f \in ViolatedFields :
         \E i \in 2..Len(MessageLines) : LineOfField(MessageLines[i], f)
    /\ \A i \in 2..Len(MessageLines) :
         IF args.t = "object"
           THEN \E f \in ViolatedFields : LineOfField(MessageLines[i], f)
           ELSE /\ Len(MessageLines) = 2
                /\ StartsWith(MessageLines[i], <<" ", " ", "-", " ">>)
                /\ ~Contains(MessageLines[i], <<":", " ">>)

C9_Witness ==
  /\ tool = "incident_delete"
  /\ Entered
  /\ ValidationFailed
  /\ ViolatedFields = {<<"i", "d", "e", "n", "t", "i", "f", "i", "e", "r">>, <<"c", "o", "n", "f", "i", "r", "m">>}
  /\ Len(MessageLines) = 3

(***************************************************************************)
(* C10. Every queryTable request of incident_query carries an integer      *)
(* limit from 1 to 1000: 100 when the payload gives none, the given one    *)
(* otherwise; a limit below 1, above 1000 or not an integer is a           *)
(* validation failure with no store call.                                  *)
(***************************************************************************)
C10_LimitIsBounded ==
  (tool = "incident_query" /\ Entered) =>
    /\ \A i \in CallsOf("queryTable") :
         LET limit == calls[i].params.sysparm_limit
         IN  /\ limit.set
             /\ limit.v.t = "number"
             /\ limit.v.d = 0
             /\ limit.v.n >= 1
             /\ limit.v.n <= 1000
             /\ Arg(<<"l", "i", "m", "i", "t">>) = Undefined => limit.v = Num(100)
             /\ Arg(<<"l", "i", "m", "i", "t">>) # Undefined => limit.v = Arg(<<"l", "i", "m", "i", "t">>)
    /\ ~ValidValue("limit", Arg(<<"l", "i", "m", "i", "t">>)) =>
         (ValidationFailed /\ calls = <<>>)

C10_Witness ==
  /\ tool = "incident_query"
  /\ args.t = "object"
  /\ Arg(<<"l", "i", "m", "i", "t">>) = Undefined
  /\ pc = "done"
  /\ CallsOf("queryTable") = {1}
  /\ calls[1].params.sysparm_limit = SetTo(Num(100))

(***************************************************************************)
(* C11. The data of every updateRecord request of incident_update has no   *)
(* identifier and no instance key, has every other property of the payload *)
(* (enumerated ones as their codes, the others as given) and nothing else, *)
(* and the request addresses the identifier itself when it is 32           *)
(* hexadecimal characters, else the sys_id of the lookup's first record.   *)
(***************************************************************************)
\* What the store is to receive for the payload entry e.
ExpectedField(e) ==
  IF e.v.t = "string" /\ \E f \in NormalizedFields : f.key = e.k
    THEN Str(DocumentedCode((CHOOSE f \in NormalizedFields : f.key = e.k).table,
                            e.v.s))
    ELSE e.v

C11_UpdateDataAndTarget ==
  \A i \in CallsOf("updateRecord") :
    tool = "incident_update" =>
      /\ ~HasKey(calls[i].data, <<"i", "d", "e", "n", "t", "i", "f", "i", "e", "r">>)
      /\ ~HasKey(calls[i].data, <<"i", "n", "s", "t", "a", "n", "c", "e">>)
      /\ \A j \in 1..Len(args.entries) :
           args.entries[j].k \notin {<<"i", "d", "e", "n", "t", "i", "f", "i", "e", "r">>, <<"i", "n", "s", "t", "a", "n", "c", "e">>} =>
             /\ HasKey(calls[i].data, args.entries[j].k)
             /\ Get(calls[i].data, args.entries[j].k)
                  = ExpectedField(args.entries[j])
      /\ \A j \in 1..Len(calls[i].data.entries) :
           HasKey(args, calls[i].data.entries[j].k)
      /\ IF Arg(<<"i", "d", "e", "n", "t", "i", "f", "i", "e", "r">>).s \in HexIdentifiers
           THEN i = 1 /\ calls[i].sysId = Arg(<<"i", "d", "e", "n", "t", "i", "f", "i", "e", "r">>)
           ELSE /\ i = 2
                /\ calls[1].op = "queryTable"
                /\ calls[i].sysId = Get(replies[1].result.items[1], <<"s", "y", "s", "_", "i", "d">>)

C11_Witness ==
  /\ tool = "incident_update"
  /\ Arg(<<"i", "n", "s", "t", "a", "n", "c", "e">>) = Str(<<"d", "e", "v">>)
  /\ Arg(<<"i", "d", "e", "n", "t", "i", "f", "i", "e", "r">>) = Str(<<"I", "N", "C", "0", "0", "1", "0", "0", "0", "2">>)
  /\ HasKey(args, <<"u", "_", "c", "u", "s", "t", "o", "m">>)
  /\ CallsOf("updateRecord") = {2}
  /\ pc = "done"
  /\ outcome.kind = "returned"

(***************************************************************************)
(* C12. incident_create sends a priority, urgency or impact given as a     *)
(* label as its code in the createRecord data, and its success text names  *)
(* the number and the sys_id of the record the store returned.             *)
(***************************************************************************)
C12_CreateSendsCodesAndReportsKeys ==
  tool = "incident_create" =>
    /\ \A i \in CallsOf("createRecord") :
         \A k \in {<<"p", "r", "i", "o", "r", "i", "t", "y">>, <<"u", "r", "g", "e", "n", "c", "y">>, <<"i", "m", "p", "a", "c", "t">>} :
           Arg(k).t = "string" =>
             Get(calls[i].data, k) = ExpectedField(Entry(k, Arg(k)))
    /\ (pc = "done" /\ outcome.kind = "returned") =>
         /\ Len(replies) = 1
         /\ Contains(outcome.text[1].s,
                     <<"I", "n", "c", "i", "d", "e", "n", "t", " ", "N", "u", "m", "b", "e", "r", ":", " ">>
                       \o Get(replies[1].result, <<"n", "u", "m", "b", "e", "r">>).s \o <<NEWLINE>>)
         /\ Contains(outcome.text[1].s,
                     <<"S", "y", "s", " ", "I", "D", ":", " ">>
                       \o Get(replies[1].result, <<"s", "y", "s", "_", "i", "d">>).s \o <<NEWLINE>>)

C12_Witness ==
  /\ tool = "incident_create"
  /\ Arg(<<"s", "h", "o", "r", "t", "_", "d", "e", "s", "c", "r", "i", "p", "t", "i", "o", "n">>) = Str(<<"X">>)
  /\ Arg(<<"p", "r", "i", "o", "r", "i", "t", "y">>) = Str(<<"C", "r", "i", "t", "i", "c", "a", "l">>)
  /\ pc = "done"
  /\ outcome.kind = "returned"
  /\ Get(calls[1].data, <<"p", "r", "i", "o", "r", "i", "t", "y">>) = Str(<<"1">>)

(***************************************************************************)
(* C13. For incident_create and incident_update, every enumerated field of *)
(* the payload (state, priority, urgency, impact) is sent to the store as  *)
(* its code, and a value outside the field's label-or-code set is a        *)
(* validation failure.                                                     *)
(***************************************************************************)
EnumeratedFields ==
  { [key |-> <<"s", "t", "a", "t", "e">>, table |-> DocumentedStateCodes],
    [key |-> <<"p", "r", "i", "o", "r", "i", "t", "y">>, table |-> DocumentedPriorityCodes],
    [key |-> <<"u", "r", "g", "e", "n", "c", "y">>, table |-> DocumentedUrgencyCodes],
    [key |-> <<"i", "m", "p", "a", "c", "t">>, table |-> DocumentedUrgencyCodes] }

\* The labels and the codes of a table.
LabelsAndCodes(table) == {p[1] : p \in table} \cup {p[2] : p \in table}

C13_EveryEnumeratedFieldNormalized ==
  (tool \in {"incident_create", "incident_update"} /\ Entered) =>
    \A f \in EnumeratedFields :
      /\ \A i \in CallsOf("createRecord") \cup CallsOf("updateRecord") :
           Arg(f.key).t = "string" =>
             Get(calls[i].data, f.key) = Str(DocumentedCode(f.table, Arg(f.key).s))
      /\ (Arg(f.key).t = "string" /\ Arg(f.key).s \notin LabelsAndCodes(f.table)) =>
           ValidationFailed

(***************************************************************************)
(* C14. An incident_query filter that gives state, priority, urgency or    *)
(* impact as labels is sent to the store as the encoded query of the same  *)
(* filter with the codes.                                                  *)
(***************************************************************************)
IsLabelFilter(filter) ==
  /\ filter.t = "object"
  /\ Len(filter.entries) >= 1
  /\ \A j \in 1..Len(filter.entries) :
       /\ filter.entries[j].v.t = "string"
       /\ \E f \in EnumeratedFields :
            /\ f.key = filter.entries[j].k
            /\ filter.entries[j].v.s \in LabelsAndCodes(f.table)

\* The encoded query of the filter with every label replaced by its code.
CodedQuery(filter) ==
  Join([j \in 1..Len(filter.entries) |->
          filter.entries[j].k \o <<"=">>
            \o DocumentedCode(
                 (CHOOSE f \in EnumeratedFields : f.key = filter.entries[j].k).table,
                 filter.entries[j].v.s)],
       <<"^">>)

C14_FilterLabelsSentAsCodes ==
  (tool = "incident_query" /\ IsLabelFilter(Arg(<<"f", "i", "l", "t", "e", "r">>))) =>
    \A i \in CallsOf("queryTable") :
      calls[i].params.sysparm_query = SetTo(Str(CodedQuery(Arg(<<"f", "i", "l", "t", "e", "r">>))))

(***************************************************************************)
(* C15. A successful incident_delete has issued exactly two store calls:   *)
(* the resolving call (getRecord by key for 32 hexadecimal characters,     *)
(* else the lookup by number), then deleteRecord with the sys_id the       *)
(* resolving call returned; its text names the number it returned.         *)
(***************************************************************************)
\* The record the resolving call of incident_delete returned.
ResolvedIncident ==
  IF calls[1].op = "getRecord" THEN replies[1].result
                               ELSE replies[1].result.items[1]

DeleteSucceeded ==
  /\ tool = "incident_delete"
  /\ pc = "done"
  /\ outcome.kind = "returned"
  /\ Contains(outcome.text[1].s, <<"d", "e", "l", "e", "t", "e", "d", " ", "s", "u", "c", "c", "e", "s", "s", "f", "u", "l", "l", "y">>)

C15_DeleteIsResolveThenDelete ==
  /\ DeleteSucceeded =>
       /\ Len(calls) = 2
       /\ Len(replies) = 2
       /\ IF Arg(<<"i", "d", "e", "n", "t", "i", "f", "i", "e", "r">>).s \in HexIdentifiers
            THEN calls[1].op = "getRecord" /\ calls[1].sysId = Arg(<<"i", "d", "e", "n", "t", "i", "f", "i", "e", "r">>)
            ELSE /\ calls[1].op = "queryTable"
                 /\ calls[1].filter = Obj(<< Entry(<<"n", "u", "m", "b", "e", "r">>, Arg(<<"i", "d", "e", "n", "t", "i", "f", "i", "e", "r">>)) >>)
       /\ calls[2].op = "deleteRecord"
       /\ calls[2].sysId = Get(ResolvedIncident, <<"s", "y", "s", "_", "i", "d">>)
       /\ outcome.text =
            <<Text(<<CHECKMARK>> \o <<" ", "I", "n", "c", "i", "d", "e", "n", "t", " ">>
                     \o Get(ResolvedIncident, <<"n", "u", "m", "b", "e", "r">>).s
                     \o <<" ", "d", "e", "l", "e", "t", "e", "d", " ", "s", "u", "c", "c", "e", "s", "s", "f", "u", "l", "l", "y", ".">>)>>
  /\ (tool = "incident_delete" /\ Len(replies) = 2 /\ replies[2].ok) =>
       DeleteSucceeded
  /\ tool = "incident_delete" => CallsOf("deleteRecord") \subseteq {2}

C15_Witness ==
  /\ DeleteSucceeded
  /\ Arg(<<"i", "d", "e", "n", "t", "i", "f", "i", "e", "r">>) = Str(SysIdA)
  /\ calls[1].op = "getRecord"
  /\ calls[2].op = "deleteRecord"
  /\ Get(ResolvedIncident, <<"s", "y", "s", "_", "i", "d">>) = Str(SysIdB)

(***************************************************************************)
(* C16. incident_query returns exactly the sentence                        *)
(* No incidents found matching the criteria. if and only if the store      *)
(* returned zero records; otherwise its text reports the number of records *)
(* returned and includes all of them.                                      *)
(***************************************************************************)
NoIncidentsSentence == <<Text(<<"N", "o", " ", "i", "n", "c", "i", "d", "e", "n", "t", "s", " ", "f", "o", "u", "n", "d", " ", "m", "a", "t", "c", "h", "i", "n", "g", " ", "t", "h", "e", " ", "c", "r", "i", "t", "e", "r", "i", "a", ".">>)>>

C16_EmptySentenceIffNoRecords ==
  tool = "incident_query" =>
    /\ (pc = "done" /\ Len(replies) = 1 /\ replies[1].ok) =>
         /\ outcome.kind = "returned"
         /\ (replies[1].result.items = <<>>) <=> (outcome.text = NoIncidentsSentence)
         /\ replies[1].result.items # <<>> =>
              outcome.text =
                << Text(<<"F", "o", "u", "n", "d", " ">> \o NatToStr(Len(replies[1].result.items))
                          \o <<" ", "i", "n", "c", "i", "d", "e", "n", "t", "(", "s", ")", ":">> \o <<NEWLINE, NEWLINE>>),
                   Json(replies[1].result) >>
    /\ outcome.text = NoIncidentsSentence =>
         /\ outcome.kind = "returned"
         /\ Len(replies) = 1
         /\ replies[1].ok
         /\ replies[1].result.items = <<>>

C16_Witness ==
  /\ tool = "incident_query"
  /\ pc = "done"
  /\ Len(replies) = 1
  /\ replies[1].ok
  /\ Len(replies[1].result.items) = 2
  /\ outcome.kind = "returned"
  /\ StartsWith(outcome.text[1].s, <<"F", "o", "u", "n", "d", " ", "2", " ", "i", "n", "c", "i", "d", "e", "n", "t", "(", "s", ")", ":">>)

(***************************************************************************)
(* C17. At the dispatch boundary a delete without confirm is answered      *)
(* through the error channel (isError set, text starting 'Error: '), while *)
(* an identifier that resolves to no record is answered with the not-found *)
(* text and no isError property.                                           *)
(***************************************************************************)
C17_ValidationErrorVersusNotFound ==
  /\ ( /\ tool = "incident_delete"
       /\ Entered
       /\ Arg(<<"c", "o", "n", "f", "i", "r", "m">>) \in {Undefined, Bool(FALSE)} ) =>
       /\ response.isError = Bool(TRUE)
       /\ Len(response.content) = 1
       /\ response.content[1].type = "text"
       /\ StartsWith(response.content[1].text[1].s, <<"E", "r", "r", "o", "r", ":", " ", "V", "a", "l", "i", "d", "a", "t", "i", "o", "n", " ", "E", "r", "r", "o", "r", ":">>)
  /\ (LookupAnswered /\ replies[1].result.items = <<>>) =>
       /\ response.isError = Undefined
       /\ Len(response.content) = 1
       /\ response.content[1].type = "text"
       /\ response.content[1].text =
            <<Text(<<"I", "n", "c", "i", "d", "e", "n", "t", " ">> \o <<DQUOTE>> \o Arg(<<"i", "d", "e", "n", "t", "i", "f", "i", "e", "r">>).s
                     \o <<DQUOTE>> \o <<" ", "n", "o", "t", " ", "f", "o", "u", "n", "d", ".">>)>>

C17_Witness ==
  /\ tool = "incident_delete"
  /\ Arg(<<"c", "o", "n", "f", "i", "r", "m">>) = Bool(TRUE)
  /\ LookupAnswered
  /\ replies[1].result.items = <<>>
  /\ response.isError = Undefined
  /\ Len(response.content) = 1

(***************************************************************************)
(* C18. An invocation without an instance property uses the client of the  *)
(* default instance; one that names a configured instance uses that        *)
(* client; one that names an instance without a client fails with a        *)
(* 'not configured' error and no store call; every store call of an        *)
(* invocation is made on the client selected for it.                       *)
(***************************************************************************)
ConfiguredInstances == {<<"p", "r", "i", "m", "a", "r", "y">>, <<"d", "e", "v">>}

C18_RoutedToSelectedClient ==
  tool \in KnownTools =>
    /\ Arg(<<"i", "n", "s", "t", "a", "n", "c", "e">>) = Undefined => client = Str(<<"p", "r", "i", "m", "a", "r", "y">>)
    /\ ( /\ Arg(<<"i", "n", "s", "t", "a", "n", "c", "e">>).t = "string"
         /\ Arg(<<"i", "n", "s", "t", "a", "n", "c", "e">>).s \in ConfiguredInstances ) =>
         client = Arg(<<"i", "n", "s", "t", "a", "n", "c", "e">>)
    /\ ( /\ IsNonEmptyString(Arg(<<"i", "n", "s", "t", "a", "n", "c", "e">>))
         /\ Arg(<<"i", "n", "s", "t", "a", "n", "c", "e">>).s \notin ConfiguredInstances ) =>
         /\ pc = "done"
         /\ client = Undefined
         /\ outcome.kind = "thrown"
         /\ Contains(outcome.text[1].s,
                     <<DQUOTE>> \o Arg(<<"i", "n", "s", "t", "a", "n", "c", "e">>).s \o <<DQUOTE>>
                       \o <<" ", "i", "s", " ", "n", "o", "t", " ", "c", "o", "n", "f", "i", "g", "u", "r", "e", "d">>)
         /\ calls = <<>>
         /\ replies = <<>>
    /\ \A i \in 1..Len(calls) :
         /\ calls[i].client = client
         /\ client.t = "string"
         /\ client.s \in ConfiguredInstances

C18_Witness ==
  /\ tool = "incident_update"
  /\ Arg(<<"i", "n", "s", "t", "a", "n", "c", "e">>) = Str(<<"d", "e", "v">>)
  /\ Len(calls) = 2
  /\ calls[1].client = Str(<<"d", "e", "v">>)
  /\ calls[2].client = Str(<<"d", "e", "v">>)

(***************************************************************************)
(* C19. The message of every failed store call names the operation and the *)
(* table, and tells the kinds apart: a response with an error payload      *)
(* gives an API error ending in the payload's message (and ' - ' detail    *)
(* when present), a response without one gives an API error with the HTTP  *)
(* status, no response gives a connection error.                           *)
(***************************************************************************)
OpText(op) ==
  CASE op = "queryTable" -> <<"q", "u", "e", "r", "y", "T", "a", "b", "l", "e">>
    [] op = "getRecord" -> <<"g", "e", "t", "R", "e", "c", "o", "r", "d">>
    [] op = "createRecord" -> <<"c", "r", "e", "a", "t", "e", "R", "e", "c", "o", "r", "d">>
    [] op = "updateRecord" -> <<"u", "p", "d", "a", "t", "e", "R", "e", "c", "o", "r", "d">>
    [] op = "deleteRecord" -> <<"d", "e", "l", "e", "t", "e", "R", "e", "c", "o", "r", "d">>

EndsWith(s, p) ==
  Len(s) >= Len(p) /\ SubSeq(s, Len(s) - Len(p) + 1, Len(s)) = p

C19_StoreErrorsAnnotated ==
  \A i \in 1..Len(replies) :
    ~replies[i].ok =>
      LET message == outcome.text[1].s
          error == replies[i].error
          payload == Get(error.data, <<"e", "r", "r", "o", "r">>)
      IN  /\ outcome.kind = "thrown"
          /\ Contains(message,
                      <<" ", "E", "r", "r", "o", "r", " ", "(">> \o OpText(calls[i].op) \o <<"(">>
                        \o <<"i", "n", "c", "i", "d", "e", "n", "t">>)
          /\ (error.kind = "axios" /\ error.response /\ error.data.t = "object") =>
               /\ StartsWith(message, <<"S", "e", "r", "v", "i", "c", "e", "N", "o", "w", " ", "A", "P", "I", " ", "E", "r", "r", "o", "r", " ", "(">>)
               /\ EndsWith(message,
                           <<")", ":", " ">> \o Get(payload, <<"m", "e", "s", "s", "a", "g", "e">>).s
                             \o (IF Get(payload, <<"d", "e", "t", "a", "i", "l">>).t = "string"
                                   THEN <<" ", "-", " ">> \o Get(payload, <<"d", "e", "t", "a", "i", "l">>).s
                                   ELSE <<>>))
          /\ (error.kind = "axios" /\ error.response /\ error.data.t # "object") =>
               /\ StartsWith(message, <<"S", "e", "r", "v", "i", "c", "e", "N", "o", "w", " ", "A", "P", "I", " ", "E", "r", "r", "o", "r", " ", "(">>)
               /\ Contains(message, <<")", ":", " ", "H", "T", "T", "P", " ">> \o NatToStr(error.status))
          /\ (error.kind = "axios" /\ ~error.response /\ error.request) =>
               /\ StartsWith(message, <<"S", "e", "r", "v", "i", "c", "e", "N", "o", "w", " ", "C", "o", "n", "n", "e", "c", "t", "i", "o", "n", " ", "E", "r", "r", "o", "r", " ", "(">>)
               /\ ~Contains(message, <<"A", "P", "I", " ", "E", "r", "r", "o", "r">>)

C19_Witness ==
  /\ Len(replies) = 1
  /\ ~replies[1].ok
  /\ calls[1].op = "getRecord"
  /\ replies[1].error.status = 404
  /\ outcome.kind = "thrown"
  /\ EndsWith(outcome.text[1].s, <<"N", "o", " ", "R", "e", "c", "o", "r", "d", " ", "f", "o", "u", "n", "d", " ", "-", " ", "R", "e", "c", "o", "r", "d", " ", "d", "o", "e", "s", "n", "'", "t", " ", "e", "x", "i", "s", "t">>)

(***************************************************************************)
(* C20. A filter entry with the operator CONTAINS is sent in the encoded   *)
(* query with the operator LIKE: field, LIKE, value.                       *)
(***************************************************************************)
C20_ContainsSentAsLike ==
  \A i \in CallsOf("queryTable") :
    (tool = "incident_query" /\ calls[i].filter.t = "object") =>
      \A j \in 1..Len(calls[i].filter.entries) :
        LET e == calls[i].filter.entries[j]
        IN  ( /\ e.v.t = "object"
              /\ Get(e.v, <<"o", "p", "e", "r", "a", "t", "o", "r">>) = Str(<<"C", "O", "N", "T", "A", "I", "N", "S">>)
              /\ Get(e.v, <<"v", "a", "l", "u", "e">>).t = "string" ) =>
              /\ Contains(calls[i].params.sysparm_query.v.s,
                          e.k \o <<"L", "I", "K", "E">> \o Get(e.v, <<"v", "a", "l", "u", "e">>).s)
              /\ ~Contains(calls[i].params.sysparm_query.v.s, <<"C", "O", "N", "T", "A", "I", "N", "S">>)


(***************************************************************************)
(* C21. A filter entry named created is sent under the store field         *)
(* sys_created_on: {created: {operator: ">=", value: "2024-01-01"}} is     *)
(* sent as the encoded query sys_created_on>=2024-01-01.                   *)
(***************************************************************************)
C21_CreatedSentAsSysCreatedOn ==
  \A i \in CallsOf("queryTable") :
    ( /\ tool = "incident_query"
      /\ calls[i].filter
           = Obj(<< Entry(<<"c", "r", "e", "a", "t", "e", "d">>,
                          OperatorValue(<<">", "=">>, Str(<<"2", "0", "2", "4", "-", "0", "1", "-", "0", "1">>))) >>) ) =>
      calls[i].params.sysparm_query = SetTo(Str(<<"s", "y", "s", "_", "c", "r", "e", "a", "t", "e", "d", "_", "o", "n", ">", "=", "2", "0", "2", "4", "-", "0", "1", "-", "0", "1">>))

(***************************************************************************)
(* C30. The lookup by number of incident_get, incident_update and          *)
(* incident_delete sends an encoded query that the store reads as the      *)
(* single condition number=<identifier>: cut at the carets, the query has  *)
(* one condition and no more.                                              *)
(***************************************************************************)
\* The conditions the store reads in an encoded query.
ConditionsOf(query) == Split(query, "^")

C30_LookupIsOneCondition ==
  (tool \in {"incident_get", "incident_update", "incident_delete"}) =>
    \A i \in CallsOf("queryTable") :
      /\ calls[i].params.sysparm_query.set
      /\ ConditionsOf(calls[i].params.sysparm_query.v.s)
           = << <<"n", "u", "m", "b", "e", "r", "=">> \o Arg(<<"i", "d", "e", "n", "t", "i", "f", "i", "e", "r">>).s >>

(***************************************************************************)
(* C24. Every filter that incident_query hands to queryTable, and so to    *)
(* buildEncodedQuery, has only non-empty field names, and every value is   *)
(* a string, a number, a boolean or an operator/scalar pair.               *)
(***************************************************************************)
C24_FilterFieldsNamedValuesFlat ==
  \A i \in CallsOf("queryTable") :
    (tool = "incident_query" /\ calls[i].filter.t = "object") =>
      \A j \in 1..Len(calls[i].filter.entries) :
        LET e == calls[i].filter.entries[j]
        IN  /\ Len(e.k) >= 1
            /\ \/ IsScalar(e.v)
               \/ /\ e.v.t = "object"
                  /\ Len(e.v.entries) = 2
                  /\ Get(e.v, <<"o", "p", "e", "r", "a", "t", "o", "r">>).t = "string"
                  /\ IsScalar(Get(e.v, <<"v", "a", "l", "u", "e">>))

(***************************************************************************)
(* C25. The data incident_create passes to createRecord holds every        *)
(* property of the validated payload except instance, each with its        *)
(* validated value, an empty string included, and does not hold instance.  *)
(***************************************************************************)
C25_CreateForwardsEveryField ==
  \A i \in CallsOf("createRecord") :
    tool = "incident_create" =>
      LET v == locals.validatedArgs
      IN  /\ ~HasKey(calls[i].data, <<"i", "n", "s", "t", "a", "n", "c", "e">>)
          /\ \A j \in 1..Len(v.entries) :
               (v.entries[j].k # <<"i", "n", "s", "t", "a", "n", "c", "e">> /\ v.entries[j].v # Undefined) =>
                 /\ HasKey(calls[i].data, v.entries[j].k)
                 /\ Get(calls[i].data, v.entries[j].k) = v.entries[j].v

(***************************************************************************)
(* C26. With an identifier of 32 hexadecimal characters, when getRecord    *)
(* fails with not-found (HTTP 404) incident_get and incident_delete end    *)
(* thrown, with the store's error in an isError response and not the       *)
(* not-found text, and incident_delete has issued no deleteRecord;         *)
(* incident_update issues updateRecord on the identifier as its first and  *)
(* only call, with no getRecord and no lookup before it.                   *)
(***************************************************************************)
\* The store answered the reply i with HTTP 404.
RecordNotFound(i) ==
  /\ ~replies[i].ok
  /\ replies[i].error.response
  /\ replies[i].error.status = 404

C26_MissingKeyIsStoreFailure ==
  /\ ( /\ tool \in {"incident_get", "incident_delete"}
       /\ Len(replies) >= 1
       /\ calls[1].op = "getRecord"
       /\ RecordNotFound(1) ) =>
       /\ IsSysId(Arg(<<"i", "d", "e", "n", "t", "i", "f", "i", "e", "r">>).s)
       /\ pc = "done"
       /\ Len(calls) = 1
       /\ CallsOf("deleteRecord") = {}
       /\ outcome.kind = "thrown"
       /\ outcome.text # NotFoundText(Arg(<<"i", "d", "e", "n", "t", "i", "f", "i", "e", "r">>))
       /\ CarriesStoreError(outcome.text[1].s, replies[1].error)
       /\ response = CallToolCatch(outcome.text[1].s)
  /\ ( /\ tool = "incident_update"
       /\ calls # <<>>
       /\ IsSysId(Arg(<<"i", "d", "e", "n", "t", "i", "f", "i", "e", "r">>).s) ) =>
       /\ Len(calls) = 1
       /\ calls[1].op = "updateRecord"
       /\ calls[1].sysId = Arg(<<"i", "d", "e", "n", "t", "i", "f", "i", "e", "r">>)

C26_Witness ==
  /\ tool = "incident_delete"
  /\ Arg(<<"i", "d", "e", "n", "t", "i", "f", "i", "e", "r">>) = Str(SysIdMixed)
  /\ Arg(<<"c", "o", "n", "f", "i", "r", "m">>) = Bool(TRUE)
  /\ Len(replies) = 1
  /\ RecordNotFound(1)
  /\ pc = "done"
  /\ outcome.kind = "thrown"

(***************************************************************************)
(* C23. incident_delete calls deleteRecord only when the payload's confirm *)
(* is the boolean true; with any other confirm, the string "true" and the  *)
(* number 1 included, the invocation is a validation failure and issues no *)
(* store call.                                                             *)
(***************************************************************************)
C23_DeleteOnlyOnLiteralTrue ==
  (tool = "incident_delete" /\ Entered) =>
    /\ CallsOf("deleteRecord") # {} => Arg(<<"c", "o", "n", "f", "i", "r", "m">>) = Bool(TRUE)
    /\ Arg(<<"c", "o", "n", "f", "i", "r", "m">>) # Bool(TRUE) => (calls = <<>> /\ ValidationFailed)

(***************************************************************************)
(* C27. The tool-call handler answers every request with exactly one       *)
(* response, set when the invocation ends and never changed after: a       *)
(* thrown error (no client, validation, store) is answered with isError    *)
(* and the text 'Error: ' followed by the error's message, a returned text *)
(* is answered as it is, and an unknown tool name is answered with such an *)
(* error response and issues no store call.                                *)
(***************************************************************************)
AnsweredOrPending ==
  /\ (pc = "done") <=> (response # NoResponse)
  /\ pc = "done" =>
       /\ outcome.kind \in {"thrown", "returned"}
       /\ Len(response.content) = 1
       /\ outcome.kind = "thrown" =>
            /\ response.isError = Bool(TRUE)
            /\ response.content[1].text
                 = <<Text(<<"E", "r", "r", "o", "r", ":", " ">> \o outcome.text[1].s)>>
       /\ outcome.kind = "returned" =>
            /\ response.isError = Undefined
            /\ response.content[1].text = outcome.text
  /\ (tool # "none" /\ tool \notin KnownTools) =>
       /\ pc = "done"
       /\ calls = <<>>
       /\ outcome.kind = "thrown"
       /\ StartsWith(outcome.text[1].s, <<"U", "n", "k", "n", "o", "w", "n", " ", "t", "o", "o", "l", ":", " ">>)

MutatingCalls ==
  CallsOf("createRecord") \cup CallsOf("updateRecord") \cup CallsOf("deleteRecord")

\* The store call with which each operation completes its work.
FinalOp ==
  CASE tool = "incident_query" -> {"queryTable"}
    [] tool = "incident_get" -> {"getRecord", "queryTable"}
    [] tool = "incident_create" -> {"createRecord"}
    [] tool = "incident_update" -> {"updateRecord"}
    [] tool = "incident_delete" -> {"deleteRecord"}
    [] OTHER -> {}

EndedNotFound ==
  /\ outcome.kind = "returned"
  /\ tool \in {"incident_get", "incident_update", "incident_delete"}
  /\ outcome.text = NotFoundText(Arg(<<"i", "d", "e", "n", "t", "i", "f", "i", "e", "r">>))
  /\ LastCall.op = "queryTable"
  /\ replies[Len(replies)] = Success(Arr(<<>>))

EndedSuccess ==
  /\ outcome.kind = "returned"
  /\ outcome.text # NotFoundText(Arg(<<"i", "d", "e", "n", "t", "i", "f", "i", "e", "r">>))
  /\ LastCall.op \in FinalOp
  /\ \A i \in 1..Len(replies) : replies[i].ok

EndedValidationFailure == ValidationFailed /\ calls = <<>>

EndedStoreFailure ==
  /\ outcome.kind = "thrown"
  /\ calls # <<>>
  /\ ~replies[Len(replies)].ok
  /\ CarriesStoreError(outcome.text[1].s, replies[Len(replies)].error)

OutcomesOf ==
  {k \in {"success", "not found", "validation failure", "store failure"} :
     CASE k = "success" -> calls # <<>> /\ EndedSuccess
       [] k = "not found" -> calls # <<>> /\ EndedNotFound
       [] k = "validation failure" -> EndedValidationFailure
       [] k = "store failure" -> EndedStoreFailure}

BoundedInvocation ==
  (Entered /\ tool \in KnownTools) =>
    /\ Len(calls) <= 2
    /\ Len(replies) <= Len(calls)
    /\ ( \/ tool \in {"incident_query", "incident_create"}
         \/ (calls # <<>> /\ calls[1].op = "getRecord" /\ tool = "incident_get") ) =>
         Len(calls) <= 1
    /\ Cardinality(MutatingCalls) <= 1
    /\ \A i \in MutatingCalls : i = Len(calls)
    /\ pc = "done" =>
         /\ Len(replies) = Len(calls)
         /\ Cardinality(OutcomesOf) = 1
         /\ \A i \in 1..(Len(replies) - 1) : replies[i].ok

C29_InvocationsEndBounded ==
  /\ []BoundedInvocation
  /\ (Entered /\ tool \in KnownTools) ~> (pc = "done")

C29_Witness ==
  /\ tool = "incident_update"
  /\ pc = "done"
  /\ Len(calls) = 2
  /\ calls[2].op = "updateRecord"
  /\ OutcomesOf = {"store failure"}

(***************************************************************************)
(* C22. When loadConfig has returned a configuration, at least one         *)
(* instance has a client and the default instance has one, so getClient    *)
(* without an instance finds a client; the default instance is the value   *)
(* of SERVICENOW_DEFAULT_INSTANCE when that is primary, dev, test or prod  *)
(* and primary otherwise; an instance whose URL, username or password is   *)
(* unset or empty has no client.                                           *)
(***************************************************************************)
\* The instance of the i-th prefix lacks one of its three variables.
Incomplete(i) ==
  \E suffix \in {<<"_", "U", "R", "L">>, <<"_", "U", "S", "E", "R", "N", "A", "M", "E">>, <<"_", "P", "A", "S", "S", "W", "O", "R", "D">>} :
    EnvOf(env, InstancePrefixes[i] \o suffix) \in {Undefined, Str(<<>>)}

GivenDefault == EnvOf(env, <<"S", "E", "R", "V", "I", "C", "E", "N", "O", "W", "_", "D", "E", "F", "A", "U", "L", "T", "_", "I", "N", "S", "T", "A", "N", "C", "E">>)

BothInvocations == {Running, parked}

MutatingOps == {"updateRecord", "deleteRecord"}

\* The mutating call of the invocation goes to the record of its own lookup.
OwnTarget(inv) ==
  \A i \in 1..Len(inv.calls) :
    inv.calls[i].op \in MutatingOps =>
      /\ i = 2
      /\ inv.calls[1].op = "queryTable"
      /\ inv.calls[1].filter
           = Obj(<< Entry(<<"n", "u", "m", "b", "e", "r">>, Get(inv.args, <<"i", "d", "e", "n", "t", "i", "f", "i", "e", "r">>)) >>)
      /\ inv.replies[1].ok
      /\ inv.calls[2].sysId = Get(inv.replies[1].result.items[1], <<"s", "y", "s", "_", "i", "d">>)

\* One lookup, at most two calls, and no call after a failed one.
NoSecondResolution(inv) ==
  /\ Len(inv.calls) <= 2
  /\ Cardinality({i \in 1..Len(inv.calls) : inv.calls[i].op = "queryTable"}) <= 1
  /\ \A i \in 1..Len(inv.replies) : ~inv.replies[i].ok => Len(inv.calls) = i

DeleteIssued(inv) ==
  inv.tool = "incident_delete" /\ Len(inv.calls) = 2

SucceededDelete(inv) ==
  /\ DeleteIssued(inv)
  /\ inv.pc = "done"
  /\ inv.outcome.kind = "returned"

FailedDelete(inv) ==
  /\ DeleteIssued(inv)
  /\ inv.pc = "done"
  /\ inv.outcome.kind = "thrown"
  /\ Len(inv.replies) = 2
  /\ ~inv.replies[2].ok

C28_MutationOnOwnLookup ==
  /\ \A inv \in BothInvocations : OwnTarget(inv) /\ NoSecondResolution(inv)
  /\ ( /\ DeleteIssued(Running)
       /\ DeleteIssued(parked)
       /\ Running.calls[2].sysId = parked.calls[2].sysId
       /\ Running.pc = "done"
       /\ parked.pc = "done" ) =>
       /\ ~(SucceededDelete(Running) /\ SucceededDelete(parked))
       /\ SucceededDelete(parked) => FailedDelete(Running)
       /\ SucceededDelete(Running) => FailedDelete(parked)

C28_Witness ==
  /\ Arg(<<"i", "d", "e", "n", "t", "i", "f", "i", "e", "r">>) = Str(<<"I", "N", "C", "0", "0", "1", "0", "0", "0", "1">>)
  /\ parked.args = args
  /\ SucceededDelete(parked)
  /\ FailedDelete(Running)
  /\ Running.calls[2].sysId = parked.calls[2].sysId
  /\ replies[2] = NoRecordFound
  /\ StartsWith(outcome.text[1].s, <<"S", "e", "r", "v", "i", "c", "e", "N", "o", "w", " ", "A", "P", "I", " ", "E", "r", "r", "o", "r">>)
====
